---- MODULE Spec2Model ----
(***************************************************************************)
(* AntennaSurface (astrohack/_classes/antenna_surface.py) for a ringed     *)
(* telescope: construction (read, crop, polar grid, panels, mask,          *)
(* phase <-> deviation), point assignment, fit, correction and metrics.    *)
(*                                                                         *)
(* Numbers.  A float is an exact rational <<n, d>> in lowest terms with    *)
(* d > 0; NaN is <<0, 0>>.  Angles are measured in turns, so twopi is 1.   *)
(* A radius and an RMS are square roots: each is held as its square.       *)
(* Python's None is <<>> and a value v that may be None is held as <<v>>.  *)
(*                                                                         *)
(* gpanel is a GeneralPanel (astrohack/_classes/polygon_panel.py), an      *)
(* object of its own; chunk and holog_file are the table rows read and the *)
(* meta data files written by the holography extraction                    *)
(* (astrohack/_utils/_io.py); ret is the outcome of the last call.         *)
(***************************************************************************)
EXTENDS Integers, Sequences, FiniteSets, TLC

VARIABLES
    telescope, wavelength, npoint, amplitude, phase, deviation,
    u_axis, v_axis, unpix, vnpix, cut, panelkind, panel_margins,
    rad, phi, mask, panels,
    solved, residuals, corrections, phase_corrections, phase_residuals,
    computephase, ret, ncompile, pipeline,
    gpanel, chunk, holog_file

vars == <<telescope, wavelength, npoint, amplitude, phase, deviation,
          u_axis, v_axis, unpix, vnpix, cut, panelkind, panel_margins,
          rad, phi, mask, panels,
          solved, residuals, corrections, phase_corrections, phase_residuals,
                computephase, ret, ncompile, pipeline,
          gpanel, chunk, holog_file>>

(* what construction fixes and no later operation assigns *)
inputs == <<telescope, wavelength, npoint, amplitude, phase, deviation,
            u_axis, v_axis, unpix, vnpix, cut, panelkind, panel_margins,
            rad, phi, mask, computephase>>

products == <<residuals, corrections, phase_corrections, phase_residuals>>

-----------------------------------------------------------------------------
(* Rational arithmetic with NaN *)

None == <<>>
Some(v) == <<v>>

NaN == <<0, 0>>
IsNaN(x) == x[2] = 0

Abs(i) == IF i < 0 THEN -i ELSE i

RECURSIVE Gcd(_, _)
Gcd(a, b) == IF b = 0 THEN a ELSE Gcd(b, a % b)

Norm(n, d) ==
    IF d = 0 THEN NaN
    ELSE LET g == Gcd(Abs(n), Abs(d))
             s == IF d < 0 THEN -1 ELSE 1
         IN  <<(s * n) \div g, (s * d) \div g>>

R(i) == <<i, 1>>
Add(x, y) == IF IsNaN(x) \/ IsNaN(y) THEN NaN
             ELSE Norm(x[1] * y[2] + y[1] * x[2], x[2] * y[2])
Neg(x) == IF IsNaN(x) THEN NaN ELSE <<-x[1], x[2]>>
Sub(x, y) == Add(x, Neg(y))
Mul(x, y) == IF IsNaN(x) \/ IsNaN(y) THEN NaN
             ELSE LET g1 == Gcd(Abs(x[1]), y[2])
                      g2 == Gcd(Abs(y[1]), x[2])
                  IN  Norm((x[1] \div g1) * (y[1] \div g2),
                           (x[2] \div g2) * (y[2] \div g1))
Div(x, y) == IF IsNaN(x) \/ IsNaN(y) THEN NaN
             ELSE Norm(x[1] * y[2], x[2] * y[1])
(* comparisons are false as soon as one side is NaN *)
Lt(x, y) == ~IsNaN(x) /\ ~IsNaN(y) /\ x[1] * y[2] < y[1] * x[2]
Le(x, y) == ~IsNaN(x) /\ ~IsNaN(y) /\ x[1] * y[2] <= y[1] * x[2]
(* Python's x != y on floats: true when either side is NaN *)
Ne(x, y) == IsNaN(x) \/ IsNaN(y) \/ x # y

(* np.sqrt of a rational that is a perfect square *)
Sqrt(x) ==
    IF IsNaN(x) THEN NaN
    ELSE <<CHOOSE k \in 0..x[1] : k * k = x[1], CHOOSE k \in 0..x[2] : k * k = x[2]>>

(* int(x): truncation toward zero; x % y of floats, for y > 0 *)
Trunc(x) == IF x[1] >= 0 THEN x[1] \div x[2] ELSE -((-x[1]) \div x[2])
Mod(x, y) == IF IsNaN(x) \/ IsNaN(y) THEN NaN
             ELSE LET q == Div(x, y) IN Sub(x, Mul(y, R(q[1] \div q[2])))

RECURSIVE SeqSum(_)
SeqSum(s) == IF s = <<>> THEN R(0) ELSE Add(s[1], SeqSum(Tail(s)))

RECURSIVE SeqMax(_)
(* np.max: NaN as soon as one element is NaN *)
SeqMax(s) ==
    IF Len(s) = 1 THEN s[1]
    ELSE LET m == SeqMax(Tail(s))
         IN  IF IsNaN(s[1]) \/ IsNaN(m) THEN NaN
             ELSE IF Lt(m, s[1]) THEN s[1] ELSE m

-----------------------------------------------------------------------------
(* Maps and axes.  A map is a function on the pixels <<ix, iy>>, both      *)
(* indices counted from 0 as in the source; an axis is a sequence.         *)

Pixels(nu, nv) == (0..(nu - 1)) \X (0..(nv - 1))

(* a[i:j] of a sequence, i and j counted from 0 *)
Slice(a, i, j) == IF j <= i THEN <<>> ELSE [k \in 1..(j - i) |-> a[k + i]]

(* m[i0:i1, j0:j1] of a map *)
Slice2(m, i0, i1, j0, j1) ==
    [p \in Pixels(IF i1 <= i0 THEN 0 ELSE i1 - i0, IF j1 <= j0 THEN 0 ELSE j1 - j0)
        |-> m[<<p[1] + i0, p[2] + j0>>]]

(* the pixels of an nu x nv map in the order the source's loops visit them *)
PixelOrder(nu, nv) ==
    IF nu <= 0 \/ nv <= 0 THEN <<>>
    ELSE [k \in 1..(nu * nv) |-> <<(k - 1) \div nv, (k - 1) % nv>>]

(* the values of a map as a sequence, row-major *)
Flat(m, nu, nv) == [k \in DOMAIN PixelOrder(nu, nv) |-> m[PixelOrder(nu, nv)[k]]]

(* The axes are in units of the pixel spacing, whose square is Step2: a    *)
(* coordinate x stands for x * sqrt(Step2).                                *)
Step2 == 96

Sq(x) == Mul(x, x)

(* x * sqrt(Step2) > e, for a coordinate x and a length e *)
AxisGt(x, e) ==
    IF Le(R(0), e) THEN Lt(R(0), x) /\ Lt(Sq(e), Mul(Sq(x), R(Step2)))
    ELSE Le(R(0), x) \/ Lt(Mul(Sq(x), R(Step2)), Sq(e))

(* sqrt(r2) > l and sqrt(r2) < l, for a squared radius r2 and a length l *)
RadGt(r2, l) == IF Lt(l, R(0)) THEN ~IsNaN(r2) ELSE Lt(Sq(l), r2)
RadLt(r2, l) == Lt(R(0), l) /\ Lt(r2, Sq(l))
RadGe(r2, l) == Le(l, R(0)) \/ Le(Sq(l), r2)
RadLe(r2, l) == Le(R(0), l) /\ Le(r2, Sq(l))

(* np.argmax of a sequence of booleans: the first TRUE, 0 when there is none *)
ArgMax(b) ==
    IF \E k \in DOMAIN b : b[k]
    THEN (CHOOSE k \in DOMAIN b : b[k] /\ \A j \in 1..(k - 1) : ~b[j]) - 1
    ELSE 0

twopi == R(1)

(* np.arctan2(x, y) in turns, for the directions of a 3 x 3 grid *)
ArcTan2(x, y) ==
    LET zx == x = R(0)
        zy == y = R(0)
        px == Lt(R(0), x)
        py == Lt(R(0), y)
        diag == Sq(x) = Sq(y)
    IN  CASE zx /\ (zy \/ py) -> R(0)
          [] px /\ py /\ diag -> <<1, 8>>
          [] px /\ zy -> <<1, 4>>
          [] px /\ ~py /\ diag -> <<3, 8>>
          [] zx /\ ~py /\ ~zy -> <<1, 2>>
          [] ~px /\ ~py /\ ~zy /\ diag -> <<-3, 8>>
          [] ~px /\ ~zx /\ zy -> <<-1, 4>>
          [] ~px /\ py /\ diag -> <<-1, 8>>
          [] OTHER -> NaN

-----------------------------------------------------------------------------
(* Ring panels (astrohack/_classes/ring_panel.py, base_panel.py).          *)

(* '{0:d}' and '{0:2d}' of a number below 100, one string per character *)
Digit(n) == CASE n = 0 -> "0" [] n = 1 -> "1" [] n = 2 -> "2" [] n = 3 -> "3"
              [] n = 4 -> "4" [] n = 5 -> "5" [] n = 6 -> "6" [] n = 7 -> "7"
              [] n = 8 -> "8" [] OTHER -> "9"
FormatD(n) == IF n < 10 THEN <<Digit(n)>> ELSE <<Digit(n \div 10), Digit(n % 10)>>
Format2D(n) == IF n < 10 THEN <<" ", Digit(n)>> ELSE FormatD(n)

(* '{0:d}-{1:d}': the panel number without its padding *)
vla_panel_labeling_unpadded(iring, ipanel) ==
    FormatD(iring + 1) \o <<"-">> \o FormatD(ipanel + 1)

vla_panel_labeling(iring, ipanel) ==
    FormatD(iring + 1) \o <<"-">> \o Format2D(ipanel + 1)

(* the sector without the step that takes sector 0 to the last sector *)
alma_sector_unwrapped(tel, iring, ipanel) ==
    LET angle == Div(twopi, R(tel.npanel[iring + 1]))
        sector_angle == Div(twopi, R(tel.npanel[1]))
        theta == Sub(twopi, Mul(Add(R(ipanel), <<1, 2>>), angle))
    IN  Trunc(Mod(Add(Add(Div(theta, sector_angle), R(1)),
                      Div(R(tel.npanel[1]), R(4))),
                  R(tel.npanel[1])))

(* the sector and the row in the sector that _alma_panel_labeling computes *)
alma_sector(tel, iring, ipanel) ==
    LET angle == Div(twopi, R(tel.npanel[iring + 1]))
        sector_angle == Div(twopi, R(tel.npanel[1]))
        theta == Sub(twopi, Mul(Add(R(ipanel), <<1, 2>>), angle))
        sector == Trunc(Mod(Add(Add(Div(theta, sector_angle), R(1)),
                              Div(R(tel.npanel[1]), R(4))),
                          R(tel.npanel[1])))
    IN  IF sector = 0 THEN tel.npanel[1] ELSE sector

alma_jpanel(tel, iring, ipanel) ==
    LET nppersec == Div(R(tel.npanel[iring + 1]), R(tel.npanel[1]))
    IN  Trunc(Sub(nppersec, Mod(R(ipanel), nppersec)))

alma_panel_labeling(tel, iring, ipanel) ==
    FormatD(alma_sector(tel, iring, ipanel)) \o <<"-">>
        \o FormatD(iring + 1) \o FormatD(alma_jpanel(tel, iring, ipanel))

SupportedNumbering == {"ring, clockwise, top", "sector, counterclockwise, right"}

(* self._panel_label, as _init_ringed associates it *)
panel_label(tel, iring, ipanel) ==
    IF tel.panel_numbering = "ring, clockwise, top"
    THEN vla_panel_labeling(iring, ipanel)
    ELSE alma_panel_labeling(tel, iring, ipanel)

(* number of free parameters of the surface model *)
NPAR(kind) == IF kind = "mean" THEN 1 ELSE 3

RingPanel(kind, angle, ipanel, label, inrad, ourad, margin) ==
    LET theta1 == Mul(R(ipanel), angle)
        theta2 == Mul(R(ipanel + 1), angle)
        dtheta == Mul(margin, angle)
        drad == Mul(margin, Sub(ourad, inrad))
    IN  [kind |-> kind, ipanel |-> ipanel, label |-> label,
         inrad |-> inrad, ourad |-> ourad,
         theta1 |-> theta1, theta2 |-> theta2,
         margin_theta1 |-> Add(theta1, dtheta), margin_theta2 |-> Sub(theta2, dtheta),
         margin_inrad |-> Add(inrad, drad), margin_ourad |-> Sub(ourad, drad),
         samples |-> <<>>, margins |-> <<>>, par |-> None]

(* <<issample, inpanel>> of a point of squared radius r2 and azimuth az *)
is_inside(panel, r2, az) ==
    LET inpanel == /\ Le(panel.theta1, az) /\ Le(az, panel.theta2)
                   /\ RadGe(r2, panel.inrad) /\ RadLe(r2, panel.ourad)
        issample == /\ inpanel
                    /\ Le(panel.margin_theta1, az) /\ Le(az, panel.margin_theta2)
                    /\ RadGe(r2, panel.margin_inrad) /\ RadLe(r2, panel.margin_ourad)
    IN  <<issample, inpanel>>

add_sample(panel, value) == [panel EXCEPT !.samples = Append(@, value)]
add_margin(panel, value) == [panel EXCEPT !.margins = Append(@, value)]

(* the "mean" model: one parameter, the mean of the samples' deviations;   *)
(* NaN with fewer samples than parameters                                   *)
solve(panel) ==
    LET nsamp == Len(panel.samples)
        devs == [k \in 1..nsamp |-> panel.samples[k][5]]
    IN  [panel EXCEPT !.par =
            Some(IF nsamp < NPAR(panel.kind) THEN <<NaN>>
                 ELSE <<Div(SeqSum(devs), R(nsamp))>>)]

(* <<ix, iy, correction>> for every sample and then every margin record *)
get_corrections(panel) ==
    LET recs == panel.samples \o panel.margins
    IN  [k \in DOMAIN recs |-> <<recs[k][3], recs[k][4], panel.par[1][1]>>]

-----------------------------------------------------------------------------
(* Construction *)

clight == R(299792458)

(* inputxds.dims['chan'] != 1, where the dataset has a chan dimension *)
MultiChannel(inputxds) == inputxds.chan # None /\ Len(inputxds.chan[1]) # 1

(* npoint is only used squared (reso ** 2): it is held as its square.  The *)
(* single-channel check is made on a dataset that is not AIPS-derived only *)
read_xds(inputxds) ==
    IF inputxds.AIPS
    THEN [raised |-> FALSE, amplitude |-> inputxds.AMPLITUDE,
          deviation |-> Some(inputxds.DEVIATION),
          phase |-> None,
          npoint |-> Sq(inputxds.npoint),
          wavelength |-> inputxds.wavelength,
          u_axis |-> inputxds.u,
          v_axis |-> inputxds.v,
          unpix |-> Len(inputxds.u),
          vnpix |-> Len(inputxds.v),
          computephase |-> TRUE]
    ELSE IF MultiChannel(inputxds) THEN [raised |-> TRUE]
    ELSE LET wl == IF inputxds.chan # None THEN Div(clight, inputxds.chan[1][1])
                   ELSE inputxds.wavelength
         IN
         [raised |-> FALSE, amplitude |-> inputxds.AMPLITUDE,
          deviation |-> None,
          phase |-> Some(inputxds.ANGLE),
          npoint |-> Add(Sq(R(inputxds.l)), Sq(R(inputxds.m))),
          wavelength |-> wl,
          u_axis |-> [k \in DOMAIN inputxds.u_prime |-> Mul(inputxds.u_prime[k], wl)],
          v_axis |-> [k \in DOMAIN inputxds.v_prime |-> Mul(inputxds.v_prime[k], wl)],
          unpix |-> Len(inputxds.u_prime),
          vnpix |-> Len(inputxds.v_prime),
          computephase |-> FALSE]

(* margin = 0.025 *)
crop_margin == <<1, 40>>

crop_maps(self, tel) ==
    LET edge == Mul(Add(<<1, 2>>, crop_margin), tel.diam)
        iumin == ArgMax([k \in DOMAIN self.u_axis |-> AxisGt(self.u_axis[k], Neg(edge))])
        iumax == ArgMax([k \in DOMAIN self.u_axis |-> AxisGt(self.u_axis[k], edge)])
        ivmin == ArgMax([k \in DOMAIN self.v_axis |-> AxisGt(self.v_axis[k], Neg(edge))])
        ivmax == ArgMax([k \in DOMAIN self.v_axis |-> AxisGt(self.v_axis[k], edge)])
    IN  [self EXCEPT
            !.unpix = iumax - iumin,
            !.vnpix = ivmax - ivmin,
            !.u_axis = Slice(self.u_axis, iumin, iumax),
            !.v_axis = Slice(self.v_axis, ivmin, ivmax),
            !.amplitude = Slice2(self.amplitude, iumin, iumax, ivmin, ivmax),
            !.phase = IF self.phase # None
                      THEN Some(Slice2(self.phase[1], iumin, iumax, ivmin, ivmax))
                      ELSE None,
            !.deviation = IF self.deviation # None
                          THEN Some(Slice2(self.deviation[1], iumin, iumax, ivmin, ivmax))
                          ELSE None]

(* self.rad, held squared: u2d**2 + v2d**2, of shape (unpix, vnpix) *)
build_polar_rad(ua, va) ==
    [p \in Pixels(Len(ua), Len(va)) |->
        Mul(Add(Sq(ua[p[1] + 1]), Sq(va[p[2] + 1])), R(Step2))]

(* self.phi: arctan2(u2d, v2d), brought into [0, twopi) and transposed, so *)
(* that its shape is (vnpix, unpix)                                         *)
build_polar_phi(ua, va) ==
    [p \in Pixels(Len(va), Len(ua)) |->
        LET a == ArcTan2(ua[p[2] + 1], va[p[1] + 1])
        IN  IF Lt(a, R(0)) THEN Add(a, twopi) ELSE a]

(* the panels of ring iring, by increasing ipanel *)
RingOfPanels(tel, kind, margin, iring) ==
    LET angle == Div(Mul(R(2), Div(twopi, R(2))), R(tel.npanel[iring + 1]))
    IN  [k \in 1..tel.npanel[iring + 1] |->
            RingPanel(kind, angle, k - 1, panel_label(tel, iring, k - 1),
                      tel.inrad[iring + 1], tel.ourad[iring + 1], margin)]

RECURSIVE RingsFrom(_, _, _, _)
RingsFrom(tel, kind, margin, iring) ==
    IF iring >= tel.nrings THEN <<>>
    ELSE RingOfPanels(tel, kind, margin, iring) \o RingsFrom(tel, kind, margin, iring + 1)

build_ring_panels(tel, kind, margin) == RingsFrom(tel, kind, margin, 0)

(* build_ring_mask with the radius limits included *)
build_ring_mask_closed(amp, cutv, radm, tel, dev) ==
    [p \in DOMAIN amp |->
        LET m1 == IF Lt(amp[p], cutv) THEN FALSE ELSE TRUE
            m2 == IF RadGe(radm[p], tel.inlim) THEN m1 ELSE FALSE
            m3 == IF RadLe(radm[p], tel.oulim) THEN m2 ELSE FALSE
            m4 == IF IsNaN(amp[p]) THEN FALSE ELSE m3
            m5 == IF dev # None /\ Ne(dev[1][p], dev[1][p]) THEN FALSE ELSE m4
        IN  m5]

(* dev is self.deviation when the mask is built: None unless the input    *)
(* was read as a deviation map, and then None != None is False             *)
build_ring_mask(amp, cutv, radm, tel, dev) ==
    [p \in DOMAIN amp |->
        LET m1 == IF Lt(amp[p], cutv) THEN FALSE ELSE TRUE
            m2 == IF RadGt(radm[p], tel.inlim) THEN m1 ELSE FALSE
            m3 == IF RadLt(radm[p], tel.oulim) THEN m2 ELSE FALSE
            m4 == IF IsNaN(amp[p]) THEN FALSE ELSE m3
            m5 == IF dev # None /\ Ne(dev[1][p], dev[1][p]) THEN FALSE ELSE m4
        IN  m5]

(* acoeff * sqrt(rad ** 2 + bcoeff) at one pixel *)
ConvFactor(wl, focus, r2) ==
    LET acoeff == Div(Div(wl, twopi), Mul(R(4), focus))
        bcoeff == Mul(R(4), Sq(focus))
    IN  Mul(acoeff, Sqrt(Add(r2, bcoeff)))

ConvFactorProduct(wl, focus, r2, ph) ==
    LET acoeff == Div(Div(wl, twopi), Mul(R(4), focus))
        bcoeff == Mul(R(4), Sq(focus))
    IN  Mul(Mul(acoeff, ph), Sqrt(Add(r2, bcoeff)))

PhaseToDeviation(ph, wl, focus, radm) ==
    [p \in DOMAIN ph |-> ConvFactorProduct(wl, focus, radm[p], ph[p])]

(* DeviationToPhase without the radius-dependent factor *)
DeviationToPhaseFlat(dev, wl, focus, radm) ==
    [p \in DOMAIN dev |-> Div(dev[p], Div(Div(wl, twopi), Mul(R(4), focus)))]

DeviationToPhase(dev, wl, focus, radm) ==
    [p \in DOMAIN dev |-> Div(dev[p], ConvFactor(wl, focus, radm[p]))]

(* the methods, on the object's own wavelength, focus and radius grid *)
phase_to_deviation(ph) == PhaseToDeviation(ph, wavelength, telescope.focus, rad)
deviation_to_phase(dev) == DeviationToPhase(dev, wavelength, telescope.focus, rad)

(* the outcome of a call together with the arguments it was given *)
ReturnedFrom(op, args, value) ==
    [op |-> op, raised |-> FALSE, value |-> value, args |-> args]
RaisedFrom(op, args, value) ==
    [op |-> op, raised |-> TRUE, value |-> value, args |-> args]

(* what the claims about construction need of the constructor's arguments *)
InitArgs(inputxds, crop) ==
    [AIPS |-> inputxds.AIPS,
     nchan |-> IF inputxds.chan = None THEN None ELSE Some(Len(inputxds.chan[1])),
     crop |-> crop,
     u |-> IF read_xds(inputxds).raised THEN None ELSE Some(read_xds(inputxds).u_axis),
     v |-> IF read_xds(inputxds).raised THEN None ELSE Some(read_xds(inputxds).v_axis)]

(* __init__ where it returns: a ringed telescope of a supported panel      *)
(* numbering and a dataset that _read_xds accepts                           *)
AntennaSurface(inputxds, tel, cutoff, pkind, crop, margins) ==
    LET rd == read_xds(inputxds)
        amax == SeqMax(Flat(rd.amplitude, rd.unpix, rd.vnpix))
        self == IF crop THEN crop_maps(rd, tel) ELSE rd
    IN  /\ telescope = tel
        /\ computephase = rd.computephase
        /\ wavelength = rd.wavelength
        /\ npoint = rd.npoint
        /\ cut = IF cutoff = None THEN Mul(<<1, 5>>, amax) ELSE Mul(cutoff[1], amax)
        /\ panelkind = IF pkind = None THEN "rigid" ELSE pkind[1]
        /\ panel_margins = IF margins = None THEN <<1, 5>> ELSE margins[1]
        /\ amplitude = self.amplitude
        /\ u_axis = self.u_axis
        /\ v_axis = self.v_axis
        /\ unpix = self.unpix
        /\ vnpix = self.vnpix
        /\ rad = build_polar_rad(u_axis, v_axis)
        /\ phi = build_polar_phi(u_axis, v_axis)
        /\ panels = build_ring_panels(telescope, panelkind, panel_margins)
        /\ mask = build_ring_mask(amplitude, cut, rad, telescope, self.deviation)
        /\ phase = IF computephase THEN deviation_to_phase(self.deviation[1])
                   ELSE self.phase[1]
        /\ deviation = IF computephase THEN self.deviation[1]
                       ELSE phase_to_deviation(self.phase[1])
        /\ solved = FALSE
        /\ residuals = None
        /\ corrections = None
        /\ phase_corrections = None
        /\ phase_residuals = None
        /\ ncompile = 0
        /\ pipeline = "new"
        /\ gpanel = None
        /\ chunk = None
        /\ holog_file = None
        /\ ret = ReturnedFrom("__init__", InitArgs(inputxds, crop), <<>>)

(* __init__ where it raises: nothing is left of the object.  The           *)
(* attributes assigned before the raise are kept here, the others are None *)
FailedSurface(inputxds, tel, cutoff, pkind, crop, margins, message) ==
    LET rd == read_xds(inputxds)
        inread == rd.raised
        amax == SeqMax(Flat(rd.amplitude, rd.unpix, rd.vnpix))
        self == IF crop THEN crop_maps(rd, tel) ELSE rd
    IN  /\ telescope = tel
        /\ computephase = IF inread THEN None ELSE rd.computephase
        /\ wavelength = IF inread THEN None ELSE rd.wavelength
        /\ npoint = IF inread THEN None ELSE rd.npoint
        /\ cut = IF inread THEN None
                 ELSE IF cutoff = None THEN Mul(<<1, 5>>, amax) ELSE Mul(cutoff[1], amax)
        /\ panelkind = IF inread THEN None
                       ELSE IF pkind = None THEN "rigid" ELSE pkind[1]
        /\ panel_margins = IF inread THEN None
                           ELSE IF margins = None THEN <<1, 5>> ELSE margins[1]
        /\ amplitude = IF inread THEN None ELSE self.amplitude
        /\ u_axis = IF inread THEN None ELSE self.u_axis
        /\ v_axis = IF inread THEN None ELSE self.v_axis
        /\ unpix = IF inread THEN None ELSE self.unpix
        /\ vnpix = IF inread THEN None ELSE self.vnpix
        /\ phase = IF inread THEN None ELSE self.phase
        /\ deviation = IF inread THEN None ELSE self.deviation
        /\ rad = None
        /\ phi = None
        /\ panels = None
        /\ mask = None
        /\ solved = FALSE
        /\ residuals = None
        /\ corrections = None
        /\ phase_corrections = None
        /\ phase_residuals = None
        /\ ncompile = 0
        /\ pipeline = "failed"
        /\ gpanel = None
        /\ chunk = None
        /\ holog_file = None
        /\ ret = RaisedFrom("__init__", InitArgs(inputxds, crop), message)

(* __init__ with an _init_ringed that takes every numbering it does not   *)
(* know for the sector numbering                                           *)
ConstructAnyNumbering(inputxds, tel, cutoff, pkind, crop, margins) ==
    IF read_xds(inputxds).raised
    THEN FailedSurface(inputxds, tel, cutoff, pkind, crop, margins,
                       "Only single channel holographies supported")
    ELSE IF ~tel.ringed
    THEN FailedSurface(inputxds, tel, cutoff, pkind, crop, margins,
                       "AttributeError: rad")
    ELSE AntennaSurface(inputxds, tel, cutoff, pkind, crop, margins)

(* __init__: _read_xds, the cut, the defaults, the crop, _init_ringed for  *)
(* a ringed telescope, then the derived map, which needs self.rad          *)
Construct(inputxds, tel, cutoff, pkind, crop, margins) ==
    IF read_xds(inputxds).raised
    THEN FailedSurface(inputxds, tel, cutoff, pkind, crop, margins,
                       "Only single channel holographies supported")
    ELSE IF tel.ringed /\ tel.panel_numbering \notin SupportedNumbering
    THEN FailedSurface(inputxds, tel, cutoff, pkind, crop, margins,
                       "Unknown panel labeling")
    ELSE IF ~tel.ringed
    THEN FailedSurface(inputxds, tel, cutoff, pkind, crop, margins,
                       "AttributeError: rad")
    ELSE AntennaSurface(inputxds, tel, cutoff, pkind, crop, margins)

-----------------------------------------------------------------------------
(* Inputs *)

MaxCompile == 2

Axis(n) == [k \in 1..n |-> R(k - 1 - ((n - 1) \div 2))]
Offset(p, n) == <<p[1] - ((n - 1) \div 2), p[2] - ((n - 1) \div 2)>>

AmplitudeMaps(n) ==
    {[p \in Pixels(n, n) |->
        IF akind = "dim" /\ Offset(p, n) = <<0, 1>> THEN R(2)
        ELSE IF akind = "dim" /\ Offset(p, n) = <<0, -1>> THEN R(1)
        ELSE IF akind = "nan" /\ Offset(p, n) = <<-1, -1>> THEN NaN
        ELSE R(10)] : akind \in {"flat", "dim", "nan"}}

DataMaps(n) ==
    {[p \in Pixels(n, n) |->
        IF dnan /\ Offset(p, n) = <<1, 0>> THEN NaN
        ELSE R(1 + Offset(p, n)[1] + 3 * Offset(p, n)[2])]
     : dnan \in BOOLEAN}

InputXds(n) ==
    {[AIPS |-> TRUE, AMPLITUDE |-> a, DEVIATION |-> d, npoint |-> R(n),
      wavelength |-> R(4), u |-> Axis(n), v |-> Axis(n), chan |-> None]
     : a \in AmplitudeMaps(n), d \in DataMaps(n)}
    \cup
    {[AIPS |-> FALSE, AMPLITUDE |-> a, ANGLE |-> d, l |-> n, m |-> n,
      wavelength |-> R(4),
      u_prime |-> [k \in 1..n |-> Div(Axis(n)[k], R(4))],
      v_prime |-> [k \in 1..n |-> Div(Axis(n)[k], R(4))], chan |-> None]
     : a \in AmplitudeMaps(n), d \in DataMaps(n)}

Telescopes ==
    {[name |-> "VLA", ringed |-> TRUE, panel_numbering |-> "ring, clockwise, top",
      diam |-> R(28), focus |-> R(1), inlim |-> R(0), oulim |-> R(14),
      nrings |-> 2, npanel |-> <<2, 4>>,
      inrad |-> <<R(5), R(12)>>, ourad |-> <<R(12), R(15)>>]}

Cutoffs == {None, Some(<<1, 2>>)}

(* telescopes of both panel numberings, of an unknown one, and one that is *)
(* not ringed                                                               *)
ConstructTelescopes ==
    {[name |-> t.name, ringed |-> t.ringed, panel_numbering |-> t.numbering,
      diam |-> R(28), focus |-> R(1), inlim |-> R(0), oulim |-> R(14),
      nrings |-> 2, npanel |-> t.npanel,
      inrad |-> <<R(5), R(12)>>, ourad |-> <<R(12), R(15)>>]
     : t \in {[name |-> "VLA", ringed |-> TRUE, npanel |-> <<2, 4>>,
                numbering |-> "ring, clockwise, top"],
               [name |-> "VLA12", ringed |-> TRUE, npanel |-> <<4, 12>>,
                numbering |-> "ring, clockwise, top"],
               [name |-> "ALMA", ringed |-> TRUE, npanel |-> <<4, 8>>,
                numbering |-> "sector, counterclockwise, right"],
               [name |-> "ALMA23", ringed |-> TRUE, npanel |-> <<2, 3>>,
                numbering |-> "sector, counterclockwise, right"],
               [name |-> "OTHER", ringed |-> TRUE, npanel |-> <<2, 4>>,
                numbering |-> "sector, clockwise, top"],
               [name |-> "FLAT", ringed |-> FALSE, npanel |-> <<2, 4>>,
                numbering |-> "none"]}}

(* datasets with and without a chan dimension, of one and of two channels; *)
(* the first channel's frequency is that of wavelength 4                    *)
Channels == {None, Some(<<<<149896229, 2>>>>), Some(<<<<149896229, 2>>, <<149896229, 1>>>>)}

ConstructXds ==
    {[x EXCEPT !.chan = c] :
        x \in {y \in InputXds(3) : \A p \in DOMAIN y.AMPLITUDE : y.AMPLITUDE[p] = R(10)},
        c \in Channels}

InitConstruct ==
    \E crop \in BOOLEAN, tel \in ConstructTelescopes, xds \in ConstructXds :
        Construct(xds, tel, None, Some("mean"), crop, None)

(* a deviation map that is flat, and a blank amplitude map *)
ExtraXds ==
    {[AIPS |-> TRUE, AMPLITUDE |-> [p \in Pixels(3, 3) |-> a],
      DEVIATION |-> [p \in Pixels(3, 3) |-> R(1)], npoint |-> R(3),
      wavelength |-> R(4), u |-> Axis(3), v |-> Axis(3), chan |-> None]
     : a \in {R(10), NaN}}

(* maps of 3 x 1 pixels: the two axes differ in length *)
RectXds ==
    LET amp == [p \in Pixels(3, 1) |-> R(10)]
        data == [p \in Pixels(3, 1) |-> R(p[1])]
    IN  {[AIPS |-> TRUE, AMPLITUDE |-> amp, DEVIATION |-> data, npoint |-> R(3),
          wavelength |-> R(4), u |-> Axis(3), v |-> Axis(1), chan |-> None],
         [AIPS |-> FALSE, AMPLITUDE |-> amp, ANGLE |-> data, l |-> 3, m |-> 1,
          wavelength |-> R(4),
          u_prime |-> [k \in 1..3 |-> Div(Axis(3)[k], R(4))],
          v_prime |-> [k \in 1..1 |-> Div(Axis(1)[k], R(4))], chan |-> None]}

(* a telescope whose first ring of panels begins beyond the pixels next to *)
(* the centre: these are valid and in no panel                              *)
GapTelescopes ==
    {[t EXCEPT !.name = "GAP", !.inrad = <<R(10), R(12)>>] : t \in Telescopes}

Init ==
    \/ \E crop \in BOOLEAN, tel \in Telescopes, cutoff \in Cutoffs :
          \E xds \in InputXds(3) \cup ExtraXds \cup (IF crop THEN InputXds(5) ELSE {}) :
              AntennaSurface(xds, tel, cutoff, Some("mean"), crop, None)
    \/ \E tel \in Telescopes, xds \in RectXds :
          AntennaSurface(xds, tel, None, Some("mean"), FALSE, None)
    \/ \E tel \in GapTelescopes, xds \in ConstructXds :
          /\ xds.chan = None
          /\ AntennaSurface(xds, tel, None, Some("mean"), FALSE, None)

-----------------------------------------------------------------------------
(* Operations.  in_rms, out_rms, ingains and ougains, which get_rms and    *)
(* gains assign and no method reads back, are what these return.           *)

Returned(op, value) == [op |-> op, raised |-> FALSE, value |-> value]
Raised(op) == [op |-> op, raised |-> TRUE, value |-> <<>>]

(* self.phi[ix, iy] is an IndexError outside phi's shape *)
PhiDefined(p) == p \in DOMAIN phi

(* the inner loop without its break: every panel that reports the pixel   *)
(* inside receives it                                                       *)
ReceivesAll(i, p) == is_inside(panels[i], rad[p], phi[p])[2]

(* the inner loop keeping the last match instead of the first *)
ReceivesLast(i, p) ==
    /\ is_inside(panels[i], rad[p], phi[p])[2]
    /\ \A j \in (i + 1)..Len(panels) : ~is_inside(panels[j], rad[p], phi[p])[2]

(* the inner loop over self.panels with its break: panel i is the first    *)
(* whose is_inside reports the pixel inside                                 *)
Receives(i, p) ==
    /\ is_inside(panels[i], rad[p], phi[p])[2]
    /\ \A j \in 1..(i - 1) : ~is_inside(panels[j], rad[p], phi[p])[2]

Record(p) == <<u_axis[p[1] + 1], v_axis[p[2] + 1], p[1], p[2], deviation[p]>>

RECURSIVE AddPoints(_, _, _, _)
(* panel i after the pixels order[k..last] have been visited *)
AddPoints(panel, i, order, k) ==
    IF k > Len(order) THEN panel
    ELSE LET p == order[k]
         IN  IF ~mask[p] THEN AddPoints(panel, i, order, k + 1)
             ELSE IF ~PhiDefined(p) THEN panel
             ELSE IF ~Receives(i, p) THEN AddPoints(panel, i, order, k + 1)
             ELSE IF is_inside(panel, rad[p], phi[p])[1]
                  THEN AddPoints(add_sample(panel, Record(p)), i, order, k + 1)
                  ELSE AddPoints(add_margin(panel, Record(p)), i, order, k + 1)

compile_panel_points ==
    LET order == PixelOrder(unpix, vnpix)
        fails == \E k \in DOMAIN order : mask[order[k]] /\ ~PhiDefined(order[k])
    IN  /\ ncompile < MaxCompile
        /\ ncompile' = ncompile + 1
        /\ pipeline' = IF pipeline = "new" /\ ~fails THEN "compiled"
                       ELSE IF pipeline \in {"compiled", "recompiled"} /\ ~fails
                       THEN "recompiled" ELSE "other"
        /\ panels' = [i \in DOMAIN panels |-> AddPoints(panels[i], i, order, 1)]
        /\ ret' = IF fails THEN Raised("compile_panel_points")
                  ELSE Returned("compile_panel_points", <<>>)
        /\ UNCHANGED <<inputs, gpanel, chunk, holog_file, solved, products>>

(* fit_surface discarding the products of an earlier correction *)
fit_surface_resets ==
    /\ panels' = [i \in DOMAIN panels |-> solve(panels[i])]
    /\ solved' = TRUE
    /\ residuals' = None
    /\ corrections' = None
    /\ phase_residuals' = None
    /\ phase_corrections' = None
    /\ ret' = Returned("fit_surface", <<>>)
    /\ pipeline' = IF pipeline \in {"compiled", "fitted"} THEN "fitted"
                   ELSE IF pipeline \in {"recompiled", "refitted"} THEN "refitted"
                   ELSE "other"
    /\ UNCHANGED <<inputs, gpanel, chunk, holog_file, ncompile>>

fit_surface ==
    /\ panels' = [i \in DOMAIN panels |-> solve(panels[i])]
    /\ solved' = TRUE
    /\ ret' = Returned("fit_surface", <<>>)
    /\ pipeline' = IF pipeline \in {"compiled", "fitted"} THEN "fitted"
                   ELSE IF pipeline \in {"recompiled", "refitted"} THEN "refitted"
                   ELSE "other"
    /\ UNCHANGED <<inputs, gpanel, chunk, holog_file, products, ncompile>>

RECURSIVE AllCorrections(_)
(* the corrections in the order the loop over self.panels meets them *)
AllCorrections(ps) ==
    IF ps = <<>> THEN <<>> ELSE get_corrections(ps[1]) \o AllCorrections(Tail(ps))

RECURSIVE ApplyCorrectionsNotNegated(_, _)
(* the loop storing the correction itself in the corrections map *)
ApplyCorrectionsNotNegated(corrs, maps) ==
    IF corrs = <<>> THEN maps
    ELSE LET corr == corrs[1]
             p == <<corr[1], corr[2]>>
         IN  ApplyCorrectionsNotNegated(Tail(corrs),
                 <<[maps[1] EXCEPT ![p] = Sub(@, corr[3])],
                   [maps[2] EXCEPT ![p] = corr[3]]>>)

RECURSIVE ApplyCorrections(_, _)
(* <<residuals, corrections>> after the loop over the corrections *)
ApplyCorrections(corrs, maps) ==
    IF corrs = <<>> THEN maps
    ELSE LET corr == corrs[1]
             p == <<corr[1], corr[2]>>
         IN  ApplyCorrections(Tail(corrs),
                 <<[maps[1] EXCEPT ![p] = Sub(@, corr[3])],
                   [maps[2] EXCEPT ![p] = Neg(corr[3])]>>)

(* the body of correct_surface with a corrections map of zeros everywhere *)
apply_corrections_zeros ==
    LET corrections0 == [p \in DOMAIN mask |-> R(0)]
        residuals0 == deviation
        maps == ApplyCorrections(AllCorrections(panels), <<residuals0, corrections0>>)
    IN  /\ corrections' = Some(maps[2])
        /\ residuals' = Some(maps[1])
        /\ phase_corrections' = Some(deviation_to_phase(maps[2]))
        /\ phase_residuals' = Some(deviation_to_phase(maps[1]))
        /\ ret' = Returned("correct_surface", <<>>)
        /\ pipeline' = IF pipeline \in {"fitted", "corrected"} THEN "corrected"
                       ELSE IF pipeline \in {"refitted", "recorrected"} THEN "recorrected"
                       ELSE "other"
        /\ UNCHANGED <<inputs, gpanel, chunk, holog_file, panels, solved, ncompile>>

(* the body of correct_surface going on from the residuals of the call     *)
(* before                                                                   *)
apply_corrections_accumulating ==
    LET corrections0 == [p \in DOMAIN mask |-> IF mask[p] THEN R(0) ELSE NaN]
        residuals0 == IF residuals = None THEN deviation ELSE residuals[1]
        maps == ApplyCorrections(AllCorrections(panels), <<residuals0, corrections0>>)
    IN  /\ corrections' = Some(maps[2])
        /\ residuals' = Some(maps[1])
        /\ phase_corrections' = Some(deviation_to_phase(maps[2]))
        /\ phase_residuals' = Some(deviation_to_phase(maps[1]))
        /\ ret' = Returned("correct_surface", <<>>)
        /\ pipeline' = IF pipeline \in {"fitted", "corrected"} THEN "corrected"
                       ELSE IF pipeline \in {"refitted", "recorrected"} THEN "recorrected"
                       ELSE "other"
        /\ UNCHANGED <<inputs, gpanel, chunk, holog_file, panels, solved, ncompile>>

(* the body of correct_surface with self.residuals = self.deviation, the   *)
(* array itself instead of a copy                                           *)
apply_corrections_aliasing ==
    LET corrections0 == [p \in DOMAIN mask |-> IF mask[p] THEN R(0) ELSE NaN]
        residuals0 == deviation
        maps == ApplyCorrections(AllCorrections(panels), <<residuals0, corrections0>>)
    IN  /\ corrections' = Some(maps[2])
        /\ residuals' = Some(maps[1])
        /\ deviation' = maps[1]
        /\ phase_corrections' = Some(deviation_to_phase(maps[2]))
        /\ phase_residuals' = Some(deviation_to_phase(maps[1]))
        /\ ret' = Returned("correct_surface", <<>>)
        /\ pipeline' = IF pipeline \in {"fitted", "corrected"} THEN "corrected"
                       ELSE IF pipeline \in {"refitted", "recorrected"} THEN "recorrected"
                       ELSE "other"
        /\ UNCHANGED <<telescope, wavelength, npoint, amplitude, phase,
                       u_axis, v_axis, unpix, vnpix, cut, panelkind, panel_margins,
                       rad, phi, mask, computephase, gpanel, chunk, holog_file,
                       panels, solved, ncompile>>

(* the body of correct_surface without the phase products *)
apply_corrections_no_phase ==
    LET corrections0 == [p \in DOMAIN mask |-> IF mask[p] THEN R(0) ELSE NaN]
        residuals0 == deviation
        maps == ApplyCorrections(AllCorrections(panels), <<residuals0, corrections0>>)
    IN  /\ corrections' = Some(maps[2])
        /\ residuals' = Some(maps[1])
        /\ ret' = Returned("correct_surface", <<>>)
        /\ pipeline' = IF pipeline \in {"fitted", "corrected"} THEN "corrected"
                       ELSE IF pipeline \in {"refitted", "recorrected"} THEN "recorrected"
                       ELSE "other"
        /\ UNCHANGED <<inputs, gpanel, chunk, holog_file, panels, solved, ncompile,
                       phase_corrections, phase_residuals>>

(* the body of correct_surface past its check of self.solved *)
apply_corrections ==
    LET corrections0 == [p \in DOMAIN mask |-> IF mask[p] THEN R(0) ELSE NaN]
        residuals0 == deviation
        maps == ApplyCorrections(AllCorrections(panels), <<residuals0, corrections0>>)
    IN  /\ corrections' = Some(maps[2])
        /\ residuals' = Some(maps[1])
        /\ phase_corrections' = Some(deviation_to_phase(maps[2]))
        /\ phase_residuals' = Some(deviation_to_phase(maps[1]))
        /\ ret' = Returned("correct_surface", <<>>)
        /\ pipeline' = IF pipeline \in {"fitted", "corrected"} THEN "corrected"
                       ELSE IF pipeline \in {"refitted", "recorrected"} THEN "recorrected"
                       ELSE "other"
        /\ UNCHANGED <<inputs, gpanel, chunk, holog_file, panels, solved, ncompile>>

(* correct_surface without its check of self.solved *)
correct_surface_unchecked == apply_corrections

(* correct_surface checking self.solved after it has set up the maps *)
correct_surface_late_check ==
    IF ~solved
    THEN /\ corrections' = Some([p \in DOMAIN mask |-> IF mask[p] THEN R(0) ELSE NaN])
         /\ residuals' = Some(deviation)
         /\ ret' = Raised("correct_surface")
         /\ UNCHANGED <<inputs, gpanel, chunk, holog_file, panels, solved, phase_corrections, phase_residuals,
                        ncompile, pipeline>>
    ELSE apply_corrections

correct_surface ==
    IF ~solved
    THEN /\ ret' = Raised("correct_surface")
         /\ UNCHANGED <<inputs, gpanel, chunk, holog_file, panels, solved, products, ncompile, pipeline>>
    ELSE apply_corrections

(* array[self.mask], in row-major order *)
Masked(array) ==
    LET valid == SelectSeq(PixelOrder(Len(u_axis), Len(v_axis)), LAMBDA p : mask[p])
    IN  [k \in DOMAIN valid |-> array[valid[k]]]

(* the RMS over every pixel, valid or not *)
compute_rms_array_unmasked(array) ==
    LET vals == [k \in 1..(unpix * vnpix) |-> array[PixelOrder(unpix, vnpix)[k]]]
    IN  Div(SeqSum([k \in DOMAIN vals |-> Sq(vals[k])]), R(Len(vals)))

(* np.sqrt(np.mean(array[self.mask] ** 2)), held as its square *)
compute_rms_array(array) ==
    LET vals == Masked(array)
    IN  Div(SeqSum([k \in DOMAIN vals |-> Sq(vals[k])]), R(Len(vals)))

convert_to_db(x) == <<"dB", x>>

(* <<actual, theoretical>>: the theoretical gain is held in units of pi,   *)
(* the actual one as the theoretical gain and the phases whose unit        *)
(* vectors it averages                                                      *)
gains_array(arr) ==
    LET reso2 == Div(Sq(telescope.diam), npoint)
        thgain == Mul(R(4), Div(Mul(R(1000000), reso2), Sq(wavelength)))
    IN  <<convert_to_db([thgain |-> thgain, phases |-> Masked(arr)]),
          convert_to_db(thgain)>>

(* np.cos and np.sin of an angle in turns that is a multiple of a quarter  *)
(* turn                                                                     *)
Cos(a) ==
    IF IsNaN(a) THEN NaN
    ELSE LET r == Mod(a, twopi)
         IN  CASE r = R(0) -> R(1) [] r = <<1, 4>> -> R(0)
               [] r = <<1, 2>> -> R(-1) [] r = <<3, 4>> -> R(0)
Sin(a) ==
    IF IsNaN(a) THEN NaN
    ELSE LET r == Mod(a, twopi)
         IN  CASE r = R(0) -> R(0) [] r = <<1, 4>> -> R(1)
               [] r = <<1, 2>> -> R(0) [] r = <<3, 4>> -> R(-1)

(* the factor with every pixel of the map counted in the divisor *)
gain_factor_all_pixels(phases) ==
    LET c == SeqSum([k \in DOMAIN phases |-> Cos(phases[k])])
        sn == SeqSum([k \in DOMAIN phases |-> Sin(phases[k])])
    IN  Div(Add(Sq(c), Sq(sn)), Sq(R(unpix * vnpix)))

(* what multiplies thgain in the actual gain,                              *)
(* np.sqrt(np.sum(np.cos(a))**2 + np.sum(np.sin(a))**2) / np.sum(self.mask) *)
(* for a = arr[self.mask], held as its square                               *)
gain_factor(phases) ==
    LET c == SeqSum([k \in DOMAIN phases |-> Cos(phases[k])])
        sn == SeqSum([k \in DOMAIN phases |-> Sin(phases[k])])
    IN  Div(Add(Sq(c), Sq(sn)), Sq(R(Len(phases))))

(* _convert_unit('m', unit, 'length') *)
convert_unit(unit) == IF unit = "mm" THEN R(1000) ELSE R(1)

RmsBefore == compute_rms_array(deviation)
RmsAfter == compute_rms_array(residuals[1])

(* fac * rms, for an rms held as its square: the pair of the two *)
Scaled(fac, rms) == <<fac, rms>>

(* get_rms taking the "after" value from the deviation map *)
get_rms_value_of_deviation(fac) ==
    IF residuals = None THEN <<Scaled(fac, RmsBefore)>>
    ELSE <<Scaled(fac, RmsBefore), Scaled(fac, RmsBefore)>>

(* the value get_rms returns: a single number, or a pair *)
get_rms_value(fac) ==
    IF residuals = None THEN <<Scaled(fac, RmsBefore)>>
    ELSE <<Scaled(fac, RmsBefore), Scaled(fac, RmsAfter)>>

get_rms ==
    \E unit \in {"mm", "m"} :
        /\ ret' = Returned("get_rms", get_rms_value(convert_unit(unit)))
        /\ UNCHANGED <<inputs, gpanel, chunk, holog_file, panels, solved, products, ncompile, pipeline>>

GainsBefore == gains_array(phase)
GainsAfter == gains_array(phase_residuals[1])

(* the value gains returns: one <<actual, theoretical>>, or a pair of them *)
gains_value ==
    IF residuals = None THEN <<GainsBefore>> ELSE <<GainsBefore, GainsAfter>>

gains ==
    /\ ret' = Returned("gains", gains_value)
    /\ UNCHANGED <<inputs, gpanel, chunk, holog_file, panels, solved, products, ncompile, pipeline>>

export_xds ==
    LET g == gains_value
        rms == get_rms_value(convert_unit("m"))
        maps == [AMPLITUDE |-> amplitude, PHASE |-> phase,
                 DEVIATION |-> deviation, MASK |-> mask]
        xds == IF residuals # None
               THEN [maps |-> maps,
                     products |-> <<phase_residuals, residuals,
                                    phase_corrections, corrections>>,
                     input_rms |-> rms[1], output_rms |-> Some(rms[2]),
                     input_gain |-> g[1][1], output_gain |-> Some(g[2][1]),
                     theoretical_gain |-> g[1][2],
                     panel_parameters |-> solved]
               ELSE [maps |-> maps,
                     products |-> <<>>,
                     input_rms |-> rms[1], output_rms |-> None,
                     input_gain |-> g[1][1], output_gain |-> None,
                     theoretical_gain |-> g[1][2],
                     panel_parameters |-> solved]
    IN  /\ ret' = Returned("export_xds", xds)
        /\ UNCHANGED <<inputs, gpanel, chunk, holog_file, panels, solved, products, ncompile, pipeline>>

Constructed == pipeline # "failed"

RECURSIVE SumTo(_, _)
(* np.sum(npanel[:n]) *)
SumTo(npanel, n) == IF n <= 0 THEN 0 ELSE npanel[n] + SumTo(npanel, n - 1)

(* the index with the offset of the rings up to and including ring *)
FetchIndexThisRing(tel, ring, panel) ==
    IF ring = 1 THEN panel - 1 ELSE SumTo(tel.npanel, ring) + panel - 1

(* the index into self.panels that _fetch_panel_ringed computes *)
FetchIndex(tel, ring, panel) ==
    IF ring = 1 THEN panel - 1 ELSE SumTo(tel.npanel, ring - 1) + panel - 1

(* self.panels[ipanel]: a negative index counts from the end *)
PanelAt(ipanel) ==
    IF ipanel >= 0 THEN panels[ipanel + 1] ELSE panels[Len(panels) + ipanel + 1]

fetch_panel ==
    /\ Constructed
    /\ \E ring \in 1..telescope.nrings :
          \E panel \in 1..telescope.npanel[ring] :
              LET ipanel == FetchIndex(telescope, ring, panel)
              IN  ret' = IF ipanel < Len(panels) /\ -ipanel <= Len(panels)
                         THEN ReturnedFrom("fetch_panel", <<ring, panel>>, PanelAt(ipanel))
                         ELSE RaisedFrom("fetch_panel", <<ring, panel>>, "IndexError")
    /\ UNCHANGED <<inputs, gpanel, chunk, holog_file, panels, solved, products, ncompile, pipeline>>

NextConstruct == fetch_panel

SpecConstruct == InitConstruct /\ [][NextConstruct]_vars

(* Arrays of the shape of the maps whose phases are quarter turns: flat,   *)
(* flat but for the centre, graded along u, along both axes, and with a    *)
(* NaN                                                                      *)
MaxTurns == 1
PhaseArrays ==
    {[p \in Pixels(3, 3) |-> <<q, 4>>] : q \in 0..(4 * MaxTurns + 1)}
    \cup {[p \in Pixels(3, 3) |-> IF p = <<1, 1>> THEN <<1, 2>> ELSE <<q, 4>>] : q \in {1, 3}}
    \cup {[p \in Pixels(3, 3) |-> Norm(p[1], 2)],
          [p \in Pixels(3, 3) |-> Norm(p[1] + p[2], 4)],
          [p \in Pixels(3, 3) |-> Norm(p[1] * p[2], 4)],
          [p \in Pixels(3, 3) |-> IF p = <<0, 1>> THEN NaN ELSE R(0)]}

(* _gains_array called with an array of the maps' shape *)
gains_array_call ==
    /\ Constructed /\ unpix = 3 /\ vnpix = 3
    /\ \E arr \in PhaseArrays :
          ret' = ReturnedFrom("_gains_array", arr, gains_array(arr))
    /\ UNCHANGED <<inputs, gpanel, chunk, holog_file, panels, solved, products, ncompile, pipeline>>

NextGains == gains_array_call

SpecGains == Init /\ [][NextGains]_vars

-----------------------------------------------------------------------------
(* Polygon panels (astrohack/_classes/polygon_panel.py).  A polygon is the *)
(* sequence of its vertices <<x, y>>, counterclockwise; a point is <<x, y>>. *)

panelkinds == <<"mean", "rigid", "corotatedparaboloid", "xyparaboloid",
                "rotatedparaboloid">>
icorpara == 3

(* BasePanel.__init__(kind, ipanel, screws) *)
BasePanel(kind, ipanel, screws) ==
    [raised |-> kind \notin {panelkinds[k] : k \in DOMAIN panelkinds},
     kind |-> kind, ipanel |-> ipanel, screws |-> screws,
     samples |-> <<>>, margins |-> <<>>, par |-> None]

(* vertex k + 1 of a polygon, the first one after the last *)
NextVertex(polygon, k) == polygon[(k % Len(polygon)) + 1]

(* twice the signed area of the triangle o, a, b *)
Cross(o, a, b) ==
    Sub(Mul(Sub(a[1], o[1]), Sub(b[2], o[2])), Mul(Sub(a[2], o[2]), Sub(b[1], o[1])))

(* shapely's Polygon.centroid *)
Centroid(polygon) ==
    LET O == <<R(0), R(0)>>
        w(k) == Cross(O, polygon[k], NextVertex(polygon, k))
        area2 == SeqSum([k \in DOMAIN polygon |-> w(k)])
        cx == SeqSum([k \in DOMAIN polygon |->
                        Mul(Add(polygon[k][1], NextVertex(polygon, k)[1]), w(k))])
        cy == SeqSum([k \in DOMAIN polygon |->
                        Mul(Add(polygon[k][2], NextVertex(polygon, k)[2]), w(k))])
    IN  <<Div(cx, Mul(R(3), area2)), Div(cy, Mul(R(3), area2))>>

(* a point in the interior of a convex polygon, and in it or on its edge *)
StrictlyInside(point, polygon) ==
    \A k \in DOMAIN polygon :
        Lt(R(0), Cross(polygon[k], NextVertex(polygon, k), point))
InsideOrOnEdge(point, polygon) ==
    \A k \in DOMAIN polygon :
        Le(R(0), Cross(polygon[k], NextVertex(polygon, k), point))

(* shapely's polygon.within(point): no point of the polygon lies outside   *)
(* the point, which holds of no polygon that has an area                    *)
PolygonWithin(polygon, point) ==
    \A k \in DOMAIN polygon : polygon[k] = point

(* GeneralPanel.__init__ without its check of the kind *)
GeneralPanelAnyKind(kind, ipanel, polygon, screws) ==
    LET base == BasePanel(kind, ipanel, screws)
    IN  IF base.raised THEN [raised |-> TRUE, message |-> "Unknown panel kind"]
        ELSE [raised |-> FALSE, kind |-> base.kind, ipanel |-> base.ipanel,
              screws |-> base.screws, samples |-> base.samples,
              margins |-> base.margins, par |-> base.par,
              polygon |-> polygon, center |-> Centroid(polygon)]

(* GeneralPanel.__init__ *)
GeneralPanel(kind, ipanel, polygon, screws) ==
    LET base == BasePanel(kind, ipanel, screws)
    IN  IF base.raised THEN [raised |-> TRUE, message |-> "Unknown panel kind"]
        ELSE IF kind = panelkinds[icorpara]
        THEN [raised |-> TRUE,
              message |-> "corotatedparaboloid not supported for Polygon based panels"]
        ELSE [raised |-> FALSE, kind |-> base.kind, ipanel |-> base.ipanel,
              screws |-> base.screws, samples |-> base.samples,
              margins |-> base.margins, par |-> base.par,
              polygon |-> polygon, center |-> Centroid(polygon)]

(* what GeneralPanel.is_inside returns, as the tuple the caller can unpack: *)
(* a single boolean value b is <<b>>                                        *)
GeneralPanel_is_inside(panel, point) == <<PolygonWithin(panel.polygon, point)>>

(* Inputs of the polygon panels: a square, a rectangle, a triangle and a   *)
(* trapezium, and the points of a grid of half steps around them           *)
Vertices(coords) == [k \in DOMAIN coords |-> <<R(coords[k][1]), R(coords[k][2])>>]
Polygons ==
    {Vertices(<<<<0, 0>>, <<2, 0>>, <<2, 2>>, <<0, 2>>>>),
     Vertices(<<<<-1, 0>>, <<2, 0>>, <<2, 1>>, <<-1, 1>>>>),
     Vertices(<<<<0, 0>>, <<2, 0>>, <<0, 2>>>>),
     Vertices(<<<<-1, -1>>, <<2, -1>>, <<1, 1>>, <<0, 1>>>>)}
MaxCoord == 2
Points == {<<<<i, 2>>, <<j, 2>>>> : i, j \in {2 * k - 1 : k \in -MaxCoord..MaxCoord}}
    \cup {<<R(i), R(j)>> : i, j \in {0, MaxCoord}}
Screws == << <<R(0), R(0)>> >>

SurfaceIdle == UNCHANGED <<inputs, panels, solved, products, ncompile, pipeline>>

GeneralPanel_init ==
    /\ \E kind \in {panelkinds[k] : k \in DOMAIN panelkinds}, ipanel \in {0, 1},
          polygon \in Polygons :
          LET new == GeneralPanel(kind, ipanel, polygon, Screws)
              args == [kind |-> kind, ipanel |-> ipanel, polygon |-> polygon]
          IN  IF new.raised
              THEN /\ gpanel' = None
                   /\ ret' = RaisedFrom("GeneralPanel", args, new.message)
              ELSE /\ gpanel' = Some(new)
                   /\ ret' = ReturnedFrom("GeneralPanel", args, <<>>)
    /\ UNCHANGED <<chunk, holog_file>>
    /\ SurfaceIdle

is_inside_call ==
    /\ gpanel # None
    /\ \E point \in Points :
          ret' = ReturnedFrom("GeneralPanel.is_inside", point,
                              GeneralPanel_is_inside(gpanel[1], point))
    /\ UNCHANGED gpanel
    /\ UNCHANGED <<chunk, holog_file>>
    /\ SurfaceIdle

(* the polygon panels are made beside one surface *)
InitPolygon ==
    \E tel \in Telescopes :
        \E xds \in {x \in ConstructXds :
                        /\ x.AIPS /\ x.chan = None
                        /\ \A p \in DOMAIN x.DEVIATION : ~IsNaN(x.DEVIATION[p])} :
            Construct(xds, tel, None, Some("mean"), FALSE, None)

NextPolygon == GeneralPanel_init \/ is_inside_call

SpecPolygon == InitPolygon /\ [][NextPolygon]_vars

-----------------------------------------------------------------------------
(* Holography extraction (astrohack/_utils/_io.py).  A complex number is   *)
(* <<re, im>>.  chunk is what _extract_holog_chunk has read for one call:  *)
(* the columns of the selected rows of the table, held row by row, the     *)
(* unique times and the antenna ids of the call; there is one channel and  *)
(* one polarization, so that a map is indexed by the time alone.           *)

CZero == <<R(0), R(0)>>
CAdd(a, b) == <<Add(a[1], b[1]), Add(a[2], b[2])>>
CScale(a, w) == <<Mul(a[1], w), Mul(a[2], w)>>
conjugate(a) == <<a[1], Neg(a[2])>>

(* x in ids, for an array of ids *)
In(x, ids) == \E k \in DOMAIN ids : ids[k] = x

(* np.unique: the values in increasing order, each once *)
unique(values) ==
    LET S == {values[k] : k \in DOMAIN values}
    IN  CHOOSE f \in [1..Cardinality(S) -> S] :
            \A i, j \in 1..Cardinality(S) : i < j => f[i] < f[j]

(* np.searchsorted(a, v): the number of elements of the sorted a below v *)
searchsorted(a, v) == Cardinality({k \in DOMAIN a : a[k] < v})

(* `flag_row is False`: flag_row is the array of the FLAG_ROW column, an   *)
(* object that is not the object False, whatever its entries                *)
flag_row_is_False(flag_row) == FALSE

(* the branches on the antennas of a row: the visibility to accumulate and *)
(* the mapping antenna it goes to, or None where the row is skipped         *)
baseline(row, map_ant_ids, ref_ant_ids) ==
    IF In(row.ant1, map_ant_ids) /\ In(row.ant2, ref_ant_ids)
    THEN Some([vis_baseline |-> row.vis, map_ant_index |-> row.ant1])
    ELSE IF In(row.ant2, map_ant_ids) /\ ~In(row.ant1, ref_ant_ids)
    THEN Some([vis_baseline |-> conjugate(row.vis), map_ant_index |-> row.ant2])
    ELSE None

RECURSIVE accumulate(_, _, _)
(* the loop over the rows from row k on; acc holds vis_map_dict and        *)
(* sum_weight_map_dict                                                      *)
accumulate(c, k, acc) ==
    IF k > Len(c.rows) THEN acc
    ELSE LET row == c.rows[k]
             b == baseline(row, c.map_ant_ids, c.ref_ant_ids)
             flag_row == [j \in DOMAIN c.rows |-> c.rows[j].flag_row]
         IN  IF flag_row_is_False(flag_row) \/ b = None \/ row.flag
             THEN accumulate(c, k + 1, acc)
             ELSE LET a == b[1].map_ant_index
                      t == searchsorted(c.time_vis, row.time)
                  IN  accumulate(c, k + 1,
                          [vis |-> [acc.vis EXCEPT ![a][t] =
                                       CAdd(@, CScale(b[1].vis_baseline, row.weight))],
                           sum_weight |-> [acc.sum_weight EXCEPT ![a][t] =
                                       Add(@, row.weight)]])

(* <<vis_map_dict, sum_weight_map_dict, flagged_mapping_antennas>> *)
extract_holog_chunk_jit(c) ==
    LET n_time == Len(c.time_vis)
        ids == {c.map_ant_ids[k] : k \in DOMAIN c.map_ant_ids}
        zeros == [vis |-> [a \in ids |-> [t \in 0..(n_time - 1) |-> CZero]],
                  sum_weight |-> [a \in ids |-> [t \in 0..(n_time - 1) |-> R(0)]]]
        acc == accumulate(c, 1, zeros)
        vis_map_dict ==
            [a \in ids |-> [t \in 0..(n_time - 1) |->
                IF acc.sum_weight[a][t] = R(0) THEN CZero
                ELSE CScale(acc.vis[a][t], Div(R(1), acc.sum_weight[a][t]))]]
        sum_of_sum_weight(a) == SeqSum([t \in 1..n_time |-> acc.sum_weight[a][t - 1]])
    IN  <<vis_map_dict, acc.sum_weight,
          SelectSeq(c.map_ant_ids, LAMBDA a : sum_of_sum_weight(a) = R(0))>>

MaxRows == 2

(* the baselines of three antennas, and the flags of a row: none, the      *)
(* row's FLAG entry, its FLAG_ROW entry                                     *)
Baselines == {<<0, 2>>, <<2, 0>>, <<0, 1>>, <<1, 0>>, <<1, 2>>}
RowFlags == {<<FALSE, FALSE>>, <<TRUE, FALSE>>, <<FALSE, TRUE>>}

(* tables of n rows: row k has visibility (2k - 1) + k i and weight k; the *)
(* rows are of one time, or the last is of the time after                   *)
Tables(n) ==
    {[k \in 1..n |->
        [ant1 |-> b[k][1], ant2 |-> b[k][2],
         vis |-> <<R(2 * k - 1), R(k)>>, weight |-> R(k),
         flag |-> f[k][1], flag_row |-> f[k][2],
         time |-> IF k = n /\ late THEN 2 ELSE 1]]
     : b \in [1..n -> Baselines], f \in [1..n -> RowFlags], late \in BOOLEAN}

(* mapping and reference antennas of a call: they share no antenna *)
AntennaIds == {<<<<0>>, <<2>>>>, <<<<0, 1>>, <<2>>>>, <<<<0>>, <<1, 2>>>>}

Chunks ==
    {[rows |-> rows,
      time_vis |-> unique([k \in DOMAIN rows |-> rows[k].time]),
      map_ant_ids |-> ids[1], ref_ant_ids |-> ids[2]]
     : rows \in UNION {Tables(n) : n \in 1..MaxRows}, ids \in AntennaIds}

(* _extract_holog_chunk up to its call of the extraction: the columns are  *)
(* read from the table and the unique times taken                           *)
extract_holog_chunk_read ==
    /\ chunk = None
    /\ \E c \in Chunks : chunk' = Some(c)
    /\ UNCHANGED <<ret, gpanel, holog_file>>
    /\ SurfaceIdle

extract_holog_chunk_jit_call ==
    /\ chunk # None
    /\ ret' = ReturnedFrom("_extract_holog_chunk_jit", chunk[1],
                           extract_holog_chunk_jit(chunk[1]))
    /\ UNCHANGED <<chunk, gpanel, holog_file>>
    /\ SurfaceIdle

NextExtract == extract_holog_chunk_read \/ extract_holog_chunk_jit_call

SpecExtract == InitPolygon /\ [][NextExtract]_vars

-----------------------------------------------------------------------------
(* Holography meta data (astrohack/_utils/_io.py).  A dict is a function   *)
(* on its keys; holog_dict, which is walked in the order of its items, is  *)
(* the sequence of its items, and so are its scan and antenna dicts.       *)
(* holog_file is the directory of the two files that are written.  An xds  *)
(* is held as its dims, its attrs and its data; of the .holog_attr file    *)
(* n_time is kept.                                                          *)

(* d[k] = v *)
Put(d, k, v) == [x \in DOMAIN d \cup {k} |-> IF x = k THEN v ELSE d[x]]

(* xds.to_dict(data=False) *)
to_dict(xds) == [dims |-> xds.dims, attrs |-> xds.attrs]

(* str and int of a number below 100 *)
str(n) == FormatD(n)
int(digits) ==
    LET value(c) == CHOOSE n \in 0..9 : Digit(n) = c
    IN  IF Len(digits) = 1 THEN value(digits[1])
        ELSE 10 * value(digits[1]) + value(digits[2])

(* json.dump followed by json.load of a dict of dicts of dicts: the keys   *)
(* of every level have become strings                                       *)
json(d) ==
    LET key(f, s) == CHOOSE k \in DOMAIN f : str(k) = s
        keys(f) == {str(k) : k \in DOMAIN f}
    IN  [a \in keys(d) |->
            [ddi \in keys(d[key(d, a)]) |->
                [scan \in keys(d[key(d, a)][key(d[key(d, a)], ddi)]) |->
                    LET da == d[key(d, a)]
                        dd == da[key(da, ddi)]
                    IN  dd[key(dd, scan)]]]]

RECURSIVE items(_, _)
(* <<scan, ant, xds>> in the order the loops over scan_dict and ant_dict   *)
(* meet them, from item j of scan_dict on                                   *)
items(scan_dict, j) ==
    IF j > Len(scan_dict) THEN <<>>
    ELSE [k \in DOMAIN scan_dict[j].ant_dict |->
             <<scan_dict[j].scan, scan_dict[j].ant_dict[k].ant,
               scan_dict[j].ant_dict[k].xds>>] \o items(scan_dict, j + 1)

RECURSIVE scan_loop(_, _, _, _)
(* the loops over the scans and antennas of one ddi, from pair k on; st    *)
(* holds ant_holog_dict and data_extent                                     *)
scan_loop(ddi, pairs, k, st) ==
    IF k > Len(pairs) THEN st
    ELSE LET scan == pairs[k][1]
             ant == pairs[k][2]
             xds == pairs[k][3]
             ant_sub_dict == Put(<<>>, ddi, <<>>)
             sub == IF ant \in DOMAIN st.ant_holog_dict
                    THEN st.ant_holog_dict[ant] ELSE ant_sub_dict
         IN  scan_loop(ddi, pairs, k + 1,
                 [ant_holog_dict |->
                      Put(st.ant_holog_dict, ant,
                          Put(sub, ddi, Put(sub[ddi], scan, to_dict(xds)))),
                  data_extent |-> Append(st.data_extent, xds.dims.time)])

RECURSIVE ddi_loop(_, _, _)
(* the loop over the items of holog_dict from item i on: every numeric ddi *)
(* begins with ant_holog_dict = {} and data_extent = []; st is None while  *)
(* the two names are unbound                                                *)
ddi_loop(holog_dict, i, st) ==
    IF i > Len(holog_dict) THEN st
    ELSE IF holog_dict[i].numeric
    THEN ddi_loop(holog_dict, i + 1,
             Some(scan_loop(holog_dict[i].key, items(holog_dict[i].scan_dict, 1), 1,
                            [ant_holog_dict |-> <<>>, data_extent |-> <<>>])))
    ELSE ddi_loop(holog_dict, i + 1, st)

(* what the call leaves: the two files, or the exception of line 149 *)
create_holog_meta_data(holog_dict) ==
    LET st == ddi_loop(holog_dict, 1, None)
    IN  IF st = None
        THEN [raised |-> TRUE, message |-> "UnboundLocalError: data_extent"]
        ELSE IF st[1].data_extent = <<>>
        THEN [raised |-> TRUE, message |-> "ValueError: zero-size array"]
        ELSE [raised |-> FALSE,
              holog_attr |-> [n_time |-> SeqMax([k \in DOMAIN st[1].data_extent |->
                                                   R(st[1].data_extent[k])])[1]],
              holog_json |-> json(st[1].ant_holog_dict)]

MaxDdi == 2

(* the scans of a ddi: for each, how many antennas it has *)
ScanShapes == {<<>>, <<1>>, <<2>>, <<1, 1>>, <<1, 2>>, <<2, 1>>, <<2, 2>>}

ScanDict(ddi, shape) ==
    [j \in DOMAIN shape |->
        [scan |-> j,
         ant_dict |-> [k \in 1..shape[j] |->
                          [ant |-> k - 1,
                           xds |-> [dims |-> [time |-> j + k], attrs |-> <<ddi, j, k - 1>>,
                                    data |-> "data"]]]]]

(* holog dicts of ddis 0, 1, ... without a key that is no number, or with *)
(* one as the first or as the last item                                    *)
HologDicts ==
    LET other == <<[key |-> 0, numeric |-> FALSE, scan_dict |-> <<>>]>>
    IN  {ends[1] \o [i \in 1..nd |-> [key |-> i - 1, numeric |-> TRUE,
                                      scan_dict |-> ScanDict(i - 1, shapes[i])]]
                 \o ends[2]
         : nd \in 1..MaxDdi, shapes \in [1..MaxDdi -> ScanShapes],
           ends \in {<<<<>>, <<>>>>, <<other, <<>>>>, <<<<>>, other>>}}

(* the call on a holog file that has no meta data yet *)
create_holog_meta_data_call ==
    /\ holog_file = None
    /\ \E holog_dict \in HologDicts :
          LET out == create_holog_meta_data(holog_dict)
          IN  IF out.raised
              THEN /\ ret' = RaisedFrom("_create_holog_meta_data", holog_dict, out.message)
                   /\ UNCHANGED holog_file
              ELSE /\ ret' = ReturnedFrom("_create_holog_meta_data", holog_dict, <<>>)
                   /\ holog_file' = Some([holog_attr |-> out.holog_attr,
                                          holog_json |-> out.holog_json])
    /\ UNCHANGED <<gpanel, chunk>>
    /\ SurfaceIdle

NextMeta == create_holog_meta_data_call

SpecMeta == InitPolygon /\ [][NextMeta]_vars

-----------------------------------------------------------------------------
Next ==
    \/ compile_panel_points
    \/ fit_surface
    \/ correct_surface
    \/ get_rms
    \/ gains
    \/ export_xds

Spec == Init /\ [][Next]_vars

-----------------------------------------------------------------------------
(* Properties *)

AllNone ==
    /\ corrections = None /\ residuals = None
    /\ phase_corrections = None /\ phase_residuals = None

(* the state machine of the surface: constructed -> fitted -> corrected *)
Lifecycle ==
    IF residuals # None THEN "corrected"
    ELSE IF solved THEN "fitted" ELSE "constructed"

MaskedPixels == {p \in DOMAIN mask : mask[p]}

(* how many of panel i's sample (margin) records are of pixel p *)
SampleCount(i, p) ==
    Cardinality({k \in DOMAIN panels[i].samples :
                    <<panels[i].samples[k][3], panels[i].samples[k][4]>> = p})
MarginCount(i, p) ==
    Cardinality({k \in DOMAIN panels[i].margins :
                    <<panels[i].margins[k][3], panels[i].margins[k][4]>> = p})
Holds(i, p) == SampleCount(i, p) > 0 \/ MarginCount(i, p) > 0

(* the panels that report pixel p inside, and the first of them *)
Matching(p) == {i \in DOMAIN panels : is_inside(panels[i], rad[p], phi[p])[2]}
First(S) == CHOOSE i \in S : \A j \in S : i <= j

(* C1: a correct_surface call on a surface that was never fitted raises    *)
(* and leaves corrections, residuals, phase_corrections and                *)
(* phase_residuals None and the surface unfitted.                          *)
C1_CorrectBeforeFitRaises ==
    [][(~solved /\ ret'.op = "correct_surface")
        => (ret'.raised /\ ~solved' /\ AllNone')]_vars

C1_Witness ==
    /\ ret.op = "correct_surface" /\ ret.raised
    /\ ~solved /\ AllNone /\ ncompile > 0

(* C2: corrections and residuals are None from construction on, whatever   *)
(* is called, and become non-None only in a correct_surface call that      *)
(* returns and finds solved set; solved is set by fit_surface alone.       *)
C2_ProductsNoneUntilCorrect ==
    /\ corrections = None /\ residuals = None /\ ~solved
    /\ [][/\ ((corrections = None /\ corrections' # None)
               \/ (residuals = None /\ residuals' # None))
              => (solved /\ ret'.op = "correct_surface" /\ ~ret'.raised)
          /\ (~solved /\ solved') => (ret'.op = "fit_surface" /\ ~ret'.raised)
          /\ ret'.op \in {"compile_panel_points", "fit_surface", "get_rms",
                          "gains", "export_xds"}
              => (corrections' = corrections /\ residuals' = residuals)]_vars

C2_Witness ==
    /\ ret.op = "export_xds" /\ solved /\ ncompile > 0
    /\ corrections = None /\ residuals = None

(* C3: no operation takes solved back to False or a product back to None,  *)
(* and the surface becomes corrected only from fitted.                     *)
C3_LifecycleForward ==
    [][/\ solved => solved'
       /\ residuals # None => residuals' # None
       /\ corrections # None => corrections' # None
       /\ (Lifecycle # "corrected" /\ Lifecycle' = "corrected")
           => Lifecycle = "fitted"
       /\ (Lifecycle = "constructed" /\ Lifecycle' # "constructed")
           => Lifecycle' = "fitted"]_vars

C3_Witness ==
    /\ Lifecycle = "corrected" /\ ret.op = "fit_surface" /\ ncompile = MaxCompile

(* C4: get_rms and gains can be called and return in every state; before   *)
(* the surface is corrected each returns the single "before" value, once   *)
(* it is corrected the pair of "before" and "after", the "after" value     *)
(* being that of the residual map (of the phase-residual map for gains).   *)
C4_MetricsBeforeAndAfter ==
    /\ ret.op = "get_rms" =>
        /\ ~ret.raised
        /\ \E fac \in {R(1), R(1000)} :
              IF Lifecycle # "corrected"
              THEN ret.value = <<Scaled(fac, compute_rms_array(deviation))>>
              ELSE ret.value = <<Scaled(fac, compute_rms_array(deviation)),
                                 Scaled(fac, compute_rms_array(residuals[1]))>>
    /\ ret.op = "gains" =>
        /\ ~ret.raised
        /\ IF Lifecycle # "corrected"
           THEN ret.value = <<gains_array(phase)>>
           ELSE ret.value = <<gains_array(phase), gains_array(phase_residuals[1])>>

C4_Witness ==
    /\ ret.op = "gains" /\ Lifecycle = "corrected" /\ Len(ret.value) = 2
    /\ MaskedPixels # {}
    /\ \E p \in MaskedPixels : phase_residuals[1][p] # phase[p]

(* C5 as claimed: after compile_panel_points, fit_surface and              *)
(* correct_surface, residuals - corrections = deviation at every masked    *)
(* pixel.                                                                   *)
C5_ResidualMinusCorrectionIsDeviation ==
    pipeline = "corrected" =>
        \A p \in MaskedPixels :
            Sub(residuals[1][p], corrections[1][p]) = deviation[p]

(* np.nansum of a map over the mask *)
RECURSIVE SetNanSum(_, _)
SetNanSum(f, S) ==
    IF S = {} THEN R(0)
    ELSE LET p == CHOOSE q \in S : TRUE
         IN  Add(IF IsNaN(f[p]) THEN R(0) ELSE f[p], SetNanSum(f, S \ {p}))

(* C5 amended: after compile_panel_points, fit_surface and correct_surface *)
(* every masked pixel whose corrections-map entry is a number has          *)
(* residuals - corrections = deviation; where the entry is NaN (the pixel  *)
(* is of a panel whose fit is degenerate) the residual is NaN too; the     *)
(* NaN-skipping sum over the mask of residuals - corrections - deviation   *)
(* is zero.                                                                 *)
C5_ConsistentWhereDefined ==
    pipeline = "corrected" =>
        /\ \A p \in MaskedPixels :
              IF IsNaN(corrections[1][p]) THEN IsNaN(residuals[1][p])
              ELSE Sub(residuals[1][p], corrections[1][p]) = deviation[p]
        /\ SetNanSum([p \in DOMAIN mask |->
                        Sub(Sub(residuals[1][p], corrections[1][p]), deviation[p])],
                     MaskedPixels) = R(0)

C5_Witness ==
    /\ pipeline = "corrected"
    /\ \E p \in MaskedPixels : IsNaN(corrections[1][p]) /\ ~IsNaN(deviation[p])
    /\ \E p \in MaskedPixels :
          /\ ~IsNaN(corrections[1][p]) /\ corrections[1][p] # R(0)
          /\ residuals[1][p] # deviation[p]

(* C6: every masked pixel is recorded, once per assignment pass, in the    *)
(* first panel of the list whose is_inside reports it inside, as a sample  *)
(* when the sample flag is set and as a margin otherwise, and in no other  *)
(* panel; a pixel no panel reports inside is recorded nowhere.             *)
C6_FirstMatchingPanelWins ==
    (\A p \in MaskedPixels : PhiDefined(p)) =>
        \A p \in MaskedPixels :
            IF Matching(p) = {}
            THEN \A i \in DOMAIN panels : ~Holds(i, p)
            ELSE LET f == First(Matching(p))
                     issample == is_inside(panels[f], rad[p], phi[p])[1]
                 IN  /\ SampleCount(f, p) = (IF issample THEN ncompile ELSE 0)
                     /\ MarginCount(f, p) = (IF issample THEN 0 ELSE ncompile)
                     /\ \A i \in DOMAIN panels \ {f} : ~Holds(i, p)

C6_Witness ==
    /\ ncompile > 0
    /\ \E p \in MaskedPixels :
          /\ Cardinality(Matching(p)) > 1
          /\ MarginCount(First(Matching(p)), p) > 0
    /\ \E p \in MaskedPixels : SampleCount(First(Matching(p)), p) > 0

(* C7: no pixel has records in two panels, none is both a sample and a     *)
(* margin record, and a pixel outside the mask has no record.              *)
C7_OnePanelPerPixel ==
    \A p \in DOMAIN mask :
        /\ Cardinality({i \in DOMAIN panels : Holds(i, p)}) <= 1
        /\ \A i \in DOMAIN panels : ~(SampleCount(i, p) > 0 /\ MarginCount(i, p) > 0)
        /\ ~mask[p] => \A i \in DOMAIN panels : ~Holds(i, p)

C7_Witness ==
    /\ ncompile > 0
    /\ \E p \in MaskedPixels : Cardinality(Matching(p)) > 1
    /\ \E p \in DOMAIN mask : ~mask[p] /\ Matching(p) # {}

(* C8 as claimed: a pixel is valid exactly when its amplitude is at least  *)
(* the cut, its radius is in the closed interval [inlim, oulim] and its    *)
(* amplitude is not NaN.                                                    *)
C8_MaskClosedInterval ==
    \A p \in DOMAIN mask :
        mask[p] <=> /\ Le(cut, amplitude[p])
                    /\ RadGe(rad[p], telescope.inlim)
                    /\ RadLe(rad[p], telescope.oulim)
                    /\ ~IsNaN(amplitude[p])

(* C8 amended: a pixel is valid exactly when its amplitude is not below    *)
(* the cut (cutoff times the maximum the input amplitude map had, which is *)
(* NaN, and below nothing, when the map holds a NaN), its radius is        *)
(* strictly between inlim and oulim, its amplitude is not NaN and, when    *)
(* the deviation map is the input, its deviation is not NaN.               *)
C8_MaskOpenInterval ==
    \A p \in DOMAIN mask :
        mask[p] <=> /\ Le(cut, amplitude[p]) \/ IsNaN(cut)
                    /\ RadGt(rad[p], telescope.inlim)
                    /\ RadLt(rad[p], telescope.oulim)
                    /\ ~IsNaN(amplitude[p])
                    /\ computephase => ~IsNaN(deviation[p])

C8_Witness ==
    /\ \E p \in DOMAIN mask :
          /\ rad[p] = Sq(telescope.inlim) /\ Le(cut, amplitude[p]) /\ ~mask[p]
    /\ \E p \in DOMAIN mask : amplitude[p] = cut /\ mask[p]
    /\ \E p \in DOMAIN mask : Lt(amplitude[p], cut)

(* C9: no pixel whose deviation is NaN is valid in the mask. *)
C9_NoNaNDeviationInMask ==
    \A p \in DOMAIN mask : IsNaN(deviation[p]) => ~mask[p]

(* C10: the deviation map is the phase-to-deviation conversion of the      *)
(* phase map at every pixel, the phase map the deviation-to-phase          *)
(* conversion of the deviation map, and converting a map to deviation and  *)
(* back gives the map.                                                      *)
C10_PhaseDeviationConsistent ==
    /\ DOMAIN deviation = DOMAIN phase
    /\ \A p \in DOMAIN phase :
          /\ deviation[p] = phase_to_deviation(phase)[p]
          /\ phase[p] = deviation_to_phase(deviation)[p]
          /\ deviation_to_phase(phase_to_deviation(phase))[p] = phase[p]
          /\ phase_to_deviation(deviation_to_phase(deviation))[p] = deviation[p]
    /\ residuals # None =>
          \A p \in DOMAIN phase :
              deviation_to_phase(phase_to_deviation(phase_residuals[1]))[p]
                  = phase_residuals[1][p]

C10_Witness ==
    /\ Lifecycle = "corrected" /\ unpix = 3 /\ npoint \in {R(25), R(50)}
    /\ \E p \in DOMAIN phase : ~IsNaN(phase[p]) /\ phase[p] # deviation[p]
    /\ \E p, q \in DOMAIN phase :
          /\ ~IsNaN(phase[p]) /\ ~IsNaN(phase[q]) /\ phase[p] # R(0) /\ phase[q] # R(0)
          /\ Div(deviation[p], phase[p]) # Div(deviation[q], phase[q])

(* C11: construction with a telescope whose panel numbering is neither of *)
(* the two supported strings raises, and no polar grid, panel list or mask *)
(* has been built; for a ringed telescope read from an accepted dataset    *)
(* the error is that of the unknown panel labeling.                        *)
C11_UnknownNumberingFails ==
    (ret.op = "__init__" /\ telescope.panel_numbering \notin SupportedNumbering)
        => /\ ret.raised
           /\ rad = None /\ phi = None /\ panels = None /\ mask = None
           /\ (telescope.ringed /\ amplitude # None)
                 => ret.value = "Unknown panel labeling"

C11_Witness ==
    /\ ret.op = "__init__" /\ ret.raised /\ telescope.ringed
    /\ telescope.panel_numbering \notin SupportedNumbering
    /\ amplitude # None /\ cut # None /\ panels = None

(* C12: construction from a dataset with more than one channel raises,     *)
(* whether the dataset is AIPS-derived or not.                             *)
C12_MultiChannelFails ==
    (ret.op = "__init__" /\ ret.args.nchan # None /\ ret.args.nchan[1] > 1)
        => ret.raised

(* C13: making a polygon panel of the co-rotated-paraboloid kind raises    *)
(* and leaves no panel; making one of any other kind of panelkinds returns *)
(* a panel of that kind, with the polygon it was given.                    *)
C13_CorotatedRejected ==
    ret.op = "GeneralPanel" =>
        IF ret.args.kind = "corotatedparaboloid"
        THEN ret.raised /\ gpanel = None
        ELSE /\ ~ret.raised /\ gpanel # None
             /\ gpanel[1].kind = ret.args.kind
             /\ gpanel[1].polygon = ret.args.polygon

C13_Witness ==
    /\ ret.op = "GeneralPanel" /\ ret.raised
    /\ ret.args.kind = "corotatedparaboloid"
    /\ ret.value = "corotatedparaboloid not supported for Polygon based panels"

(* C14: is_inside of a polygon panel returns the pair <<is_sample,         *)
(* is_inside>>, and a point strictly inside the panel's polygon is         *)
(* reported inside.                                                         *)
C14_PolygonContainment ==
    (ret.op = "GeneralPanel.is_inside" /\ StrictlyInside(ret.args, gpanel[1].polygon))
        => (Len(ret.value) = 2 /\ ret.value[2])

(* the zero-based <<iring, ipanel>> of a ringed telescope's panels *)
PanelIds == {id \in (0..(telescope.nrings - 1)) \X (0..12) :
                id[2] < telescope.npanel[id[1] + 1]}

(* the place in the panel list of panel <<iring, ipanel>> in ring-major    *)
(* order, counting from 1                                                   *)
Place(id) ==
    Cardinality({other \in PanelIds :
                    \/ other[1] < id[1]
                    \/ other[1] = id[1] /\ other[2] <= id[2]})

SectorLabel(sector, iring, row) ==
    FormatD(sector) \o <<"-">> \o FormatD(iring + 1) \o FormatD(row)

(* C16 as claimed: under the sector numbering every panel's sector is in   *)
(* 1..N, N the panel count of the first ring, and its row in the sector in *)
(* 1..panels per sector of its ring.                                        *)
C16_SectorAndRowInRange ==
    (Constructed /\ telescope.panel_numbering = "sector, counterclockwise, right") =>
        \A id \in PanelIds :
            \E sector \in 1..telescope.npanel[1] :
                \E row \in 1..(telescope.npanel[id[1] + 1] \div telescope.npanel[1]) :
                    panels[Place(id)].label = SectorLabel(sector, id[1], row)

(* C16 amended: the sector is in 1..N for every panel; the row is in       *)
(* 1..panels per sector for the panels of a ring whose panel count is a    *)
(* multiple of the first ring's.                                            *)
C16_SectorInRangeRowWhenMultiple ==
    (Constructed /\ telescope.panel_numbering = "sector, counterclockwise, right") =>
        \A id \in PanelIds :
            LET n == telescope.npanel[id[1] + 1]
                N == telescope.npanel[1]
            IN  \E sector \in 1..N :
                    \E row \in 0..n :
                        /\ panels[Place(id)].label = SectorLabel(sector, id[1], row)
                        /\ n % N = 0 => row \in 1..(n \div N)

C16_Witness ==
    /\ Constructed /\ telescope.panel_numbering = "sector, counterclockwise, right"
    /\ telescope.npanel = <<4, 8>>
    /\ \E i, j \in DOMAIN panels :
          /\ panels[i].label = SectorLabel(4, 0, 1)
          /\ panels[j].label = SectorLabel(1, 1, 2)

(* C17: the panel list holds sum(npanel) panels, the panel built for       *)
(* <<iring, ipanel>> at its place in ring-major order, and fetch_panel     *)
(* (ring, panel) returns the panel built for <<ring - 1, panel - 1>>.      *)
Built(id) ==
    RingPanel(panelkind, Div(twopi, R(telescope.npanel[id[1] + 1])), id[2],
              panel_label(telescope, id[1], id[2]),
              telescope.inrad[id[1] + 1], telescope.ourad[id[1] + 1], panel_margins)

C17_PanelListAndFetch ==
    Constructed =>
        /\ Len(panels) = Cardinality(PanelIds)
        /\ \A id \in PanelIds : panels[Place(id)] = Built(id)
        /\ ret.op = "fetch_panel" =>
              /\ ~ret.raised
              /\ ret.value = Built(<<ret.args[1] - 1, ret.args[2] - 1>>)

C17_Witness ==
    /\ ret.op = "fetch_panel" /\ ret.args = <<2, 3>> /\ ~ret.raised
    /\ telescope.npanel = <<4, 12>>
    /\ ret.value = panels[7] /\ ret.value.ipanel = 2

(* the angle of the point <<x, y>> from the positive y axis, growing       *)
(* toward positive x, in [0, twopi)                                         *)
Azimuth(x, y) ==
    LET a == ArcTan2(x, y) IN IF Lt(a, R(0)) THEN Add(a, twopi) ELSE a

(* C18: for every pixel <<ix, iy>> the azimuth used in point assignment,   *)
(* phi[ix, iy], is that of the point <<u_axis[ix], v_axis[iy]>> and the    *)
(* radius its distance from the origin; the centre pixel has radius 0 and  *)
(* a defined azimuth.                                                       *)
C18_PolarGrid ==
    Constructed =>
        \A p \in DOMAIN rad :
            LET x == u_axis[p[1] + 1]
                y == v_axis[p[2] + 1]
            IN  /\ rad[p] = Mul(Add(Sq(x), Sq(y)), R(Step2))
                /\ p \in DOMAIN phi
                /\ phi[p] = Azimuth(x, y)
                /\ Le(R(0), phi[p]) /\ Lt(phi[p], twopi)
                /\ (x = R(0) /\ y = R(0)) => (rad[p] = R(0) /\ ~IsNaN(phi[p]))

RECURSIVE SetSum(_, _)
SetSum(f, S) ==
    IF S = {} THEN R(0)
    ELSE LET p == CHOOSE q \in S : TRUE IN Add(f[p], SetSum(f, S \ {p}))

(* the mean over the valid pixels of the squares of a map: the square of   *)
(* its RMS; NaN when no pixel is valid                                      *)
MeanSquare(map) ==
    Div(SetSum([p \in DOMAIN mask |-> Sq(map[p])], MaskedPixels),
        R(Cardinality(MaskedPixels)))

ZeroOnMask(map) == \A p \in MaskedPixels : map[p] = R(0)

(* C19 as claimed: get_rms returns the unit factor times the RMS over the  *)
(* valid pixels of the deviation and, once corrected, of the residual, and *)
(* the "after" RMS is exactly 0 when the residual is zero at every valid   *)
(* pixel.                                                                   *)
C19_RmsZeroOnZeroResidual ==
    ret.op = "get_rms" =>
        \E fac \in {R(1), R(1000)} :
            /\ ret.value[1] = Scaled(fac, MeanSquare(deviation))
            /\ residuals # None =>
                  /\ ret.value[2] = Scaled(fac, MeanSquare(residuals[1]))
                  /\ ZeroOnMask(residuals[1]) => ret.value[2][2] = R(0)

(* C19 amended: as claimed, the "after" RMS being exactly 0 when the       *)
(* residual is zero at every valid pixel and there is a valid pixel; with  *)
(* no valid pixel both values are NaN.                                      *)
C19_RmsZeroOnZeroResidualOfValidPixels ==
    ret.op = "get_rms" =>
        \E fac \in {R(1), R(1000)} :
            /\ ret.value[1] = Scaled(fac, MeanSquare(deviation))
            /\ MaskedPixels = {} => IsNaN(ret.value[1][2])
            /\ residuals # None =>
                  /\ ret.value[2] = Scaled(fac, MeanSquare(residuals[1]))
                  /\ (ZeroOnMask(residuals[1]) /\ MaskedPixels # {})
                        => ret.value[2][2] = R(0)
                  /\ MaskedPixels = {} => IsNaN(ret.value[2][2])

C19_Witness ==
    /\ ret.op = "get_rms" /\ residuals # None /\ MaskedPixels # {}
    /\ ZeroOnMask(residuals[1])
    /\ \E p \in DOMAIN mask : ~mask[p] /\ residuals[1][p] # R(0)
    /\ ret.value[2][2] = R(0) /\ ret.value[1][2] # R(0)

(* C20: the actual gain _gains_array returns is the theoretical gain times *)
(* a factor that is never above 1, and that is 1 for an array that is      *)
(* constant over the valid pixels when there is a valid pixel: the actual  *)
(* gain never exceeds the theoretical one and equals it for a constant     *)
(* phase.                                                                   *)
C20_GainAtMostTheoretical ==
    ret.op = "_gains_array" =>
        LET actual == ret.value[1][2]
            theoretical == ret.value[2][2]
            factor == gain_factor(actual.phases)
            constant == \A p, q \in MaskedPixels :
                            /\ ~IsNaN(ret.args[p]) /\ ret.args[p] = ret.args[q]
        IN  /\ actual.thgain = theoretical
            /\ Lt(R(0), theoretical) \/ IsNaN(theoretical)
            /\ Len(actual.phases) = Cardinality(MaskedPixels)
            /\ ~Lt(R(1), factor)
            /\ (constant /\ MaskedPixels # {}) => factor = R(1)

C20_Witness ==
    /\ ret.op = "_gains_array" /\ MaskedPixels # {}
    /\ \A p, q \in MaskedPixels : ret.args[p] = ret.args[q]
    /\ \E p \in DOMAIN mask, q \in MaskedPixels : ret.args[p] # ret.args[q]
    /\ gain_factor(ret.value[1][2].phases) = R(1)
    /\ Cardinality(MaskedPixels) < unpix * vnpix

(* an array whose phases cancel in part: the actual gain is below the      *)
(* theoretical one                                                          *)
C20_WitnessBelow ==
    /\ ret.op = "_gains_array" /\ MaskedPixels # {}
    /\ Lt(R(0), gain_factor(ret.value[1][2].phases))
    /\ Lt(gain_factor(ret.value[1][2].phases), R(1))

(* the number of records, sample and margin, that all panels hold of p *)
RecordCount(p) ==
    SetSum([i \in DOMAIN panels |-> R(SampleCount(i, p) + MarginCount(i, p))],
           DOMAIN panels)[1]

(* C21: after correct_surface every pixel outside the mask has a NaN       *)
(* corrections entry and a residual equal to its deviation, and every      *)
(* masked pixel that no panel holds has corrections entry 0 and a residual *)
(* equal to its deviation.                                                  *)
C21_UnassignedPixelsUntouched ==
    (ret.op = "correct_surface" /\ ~ret.raised) =>
        \A p \in DOMAIN mask :
            /\ ~mask[p] =>
                  /\ IsNaN(corrections[1][p])
                  /\ residuals[1][p] = deviation[p]
            /\ (mask[p] /\ \A i \in DOMAIN panels : ~Holds(i, p)) =>
                  /\ corrections[1][p] = R(0)
                  /\ residuals[1][p] = deviation[p]

C21_Witness ==
    /\ ret.op = "correct_surface" /\ ~ret.raised /\ pipeline = "corrected"
    /\ \E p \in DOMAIN mask : ~mask[p]
    /\ \E p \in MaskedPixels : \A i \in DOMAIN panels : ~Holds(i, p)
    /\ \E p \in MaskedPixels :
          /\ \E i \in DOMAIN panels : Holds(i, p)
          /\ ~IsNaN(residuals[1][p]) /\ residuals[1][p] # deviation[p]

(* C25 as claimed: after compile_panel_points called once or more, then    *)
(* fit_surface and correct_surface, each assigned pixel is recorded        *)
(* exactly once among all panels' samples and margins and its correction   *)
(* is subtracted from the residual exactly once.                            *)
C25_CompileIdempotent ==
    pipeline \in {"corrected", "recorrected"} =>
        \A p \in MaskedPixels :
            (\E i \in DOMAIN panels : Holds(i, p)) =>
                /\ RecordCount(p) = 1
                /\ residuals[1][p] = Add(deviation[p], corrections[1][p])

(* C26: a correct_surface call right after a correct_surface call that     *)
(* returned leaves corrections, residuals, phase_corrections and           *)
(* phase_residuals as they were.                                            *)
C26_CorrectIdempotent ==
    [][(ret.op = "correct_surface" /\ ~ret.raised /\ ret'.op = "correct_surface")
        => (~ret'.raised /\ products' = products)]_vars

C26_Witness ==
    /\ ret.op = "correct_surface" /\ ~ret.raised /\ ncompile > 0
    /\ \E p \in MaskedPixels :
          /\ ~IsNaN(residuals[1][p]) /\ residuals[1][p] # deviation[p]
          /\ Sub(residuals[1][p], deviation[p]) = corrections[1][p]

(* C27: fit_surface and correct_surface leave the amplitude, deviation and *)
(* phase maps, the mask, the coordinate grids and axes, and the panels in  *)
(* the list with the records they hold, as they were.                       *)
C27_FitAndCorrectKeepInputs ==
    [][ret'.op \in {"fit_surface", "correct_surface"} =>
        /\ amplitude' = amplitude /\ deviation' = deviation /\ phase' = phase
        /\ mask' = mask /\ rad' = rad /\ phi' = phi
        /\ u_axis' = u_axis /\ v_axis' = v_axis
        /\ DOMAIN panels' = DOMAIN panels
        /\ \A i \in DOMAIN panels :
              /\ panels'[i].label = panels[i].label
              /\ panels'[i].samples = panels[i].samples
              /\ panels'[i].margins = panels[i].margins]_vars

C27_Witness ==
    /\ ret.op = "correct_surface" /\ ~ret.raised /\ ncompile > 0
    /\ \E p \in MaskedPixels :
          /\ ~IsNaN(residuals[1][p]) /\ residuals[1][p] # deviation[p]
    /\ \E i \in DOMAIN panels : panels[i].samples # <<>> /\ panels[i].par # None

(* C28: corrections, residuals, phase_corrections and phase_residuals are  *)
(* all None or all non-None, non-None only if solved; gains and export_xds *)
(* return whenever residuals is non-None, phase_residuals being non-None.  *)
C28_ProductsTogether ==
    /\ AllNone \/ (/\ corrections # None /\ residuals # None
                   /\ phase_corrections # None /\ phase_residuals # None)
    /\ ~AllNone => solved
    /\ (ret.op \in {"gains", "export_xds"} /\ residuals # None) =>
          (~ret.raised /\ phase_residuals # None)

C28_Witness ==
    /\ ret.op = "export_xds" /\ ~ret.raised /\ residuals # None
    /\ ret.value.output_gain # None
    /\ ret.value.products = <<phase_residuals, residuals, phase_corrections, corrections>>

(* C29 as claimed: for a map whose axes differ in length the radius grid,  *)
(* the azimuth grid, the mask and the deviation map all have the shape     *)
(* (unpix, vnpix), and point assignment does not index out of bounds.      *)
C29_GridsShareShape ==
    (pipeline # "failed" /\ unpix # vnpix) =>
        /\ DOMAIN rad = Pixels(unpix, vnpix)
        /\ DOMAIN phi = Pixels(unpix, vnpix)
        /\ DOMAIN mask = Pixels(unpix, vnpix)
        /\ DOMAIN deviation = Pixels(unpix, vnpix)
        /\ ret.op = "compile_panel_points" => ~ret.raised

(* C30 as claimed: with crop enabled every pixel of the dataset whose u    *)
(* and v lie within (0.5 + margin) * diameter of the centre is retained,   *)
(* unpix and vnpix are the lengths of the cropped axes, and the amplitude, *)
(* phase and deviation maps have the shape (unpix, vnpix).                  *)
C30_CropKeepsTheDish ==
    (ret.op = "__init__" /\ ~ret.raised /\ ret.args.crop) =>
        LET edge == Mul(Add(<<1, 2>>, crop_margin), telescope.diam)
            Within(x) == AxisGt(x, Neg(edge)) /\ ~AxisGt(x, edge)
        IN  /\ \A k \in DOMAIN ret.args.u[1] :
                  Within(ret.args.u[1][k]) =>
                      \E j \in DOMAIN u_axis : u_axis[j] = ret.args.u[1][k]
            /\ \A k \in DOMAIN ret.args.v[1] :
                  Within(ret.args.v[1][k]) =>
                      \E j \in DOMAIN v_axis : v_axis[j] = ret.args.v[1][k]
            /\ unpix = Len(u_axis) /\ vnpix = Len(v_axis)
            /\ DOMAIN amplitude = Pixels(unpix, vnpix)
            /\ DOMAIN phase = Pixels(unpix, vnpix)
            /\ DOMAIN deviation = Pixels(unpix, vnpix)

(* what a call shall return for the rows that Counts admits, paired with a *)
(* mapping antenna by Paired: <<vis_map_dict, sum_weight_map_dict>>         *)
Expected(c, Paired(_), Counts(_)) ==
    LET ids == {c.map_ant_ids[k] : k \in DOMAIN c.map_ant_ids}
        times == 0..(Len(c.time_vis) - 1)
        Gives(k, a, t) ==
            /\ Counts(c.rows[k])
            /\ Paired(c.rows[k]) # None
            /\ Paired(c.rows[k])[1].map_ant_index = a
            /\ c.time_vis[t + 1] = c.rows[k].time
        weight(a, t) ==
            SeqSum([k \in DOMAIN c.rows |->
                        IF Gives(k, a, t) THEN c.rows[k].weight ELSE R(0)])
        re(a, t) ==
            SeqSum([k \in DOMAIN c.rows |->
                        IF Gives(k, a, t)
                        THEN Mul(Paired(c.rows[k])[1].vis_baseline[1], c.rows[k].weight)
                        ELSE R(0)])
        im(a, t) ==
            SeqSum([k \in DOMAIN c.rows |->
                        IF Gives(k, a, t)
                        THEN Mul(Paired(c.rows[k])[1].vis_baseline[2], c.rows[k].weight)
                        ELSE R(0)])
    IN  <<[a \in ids |-> [t \in times |->
              IF weight(a, t) = R(0) THEN CZero
              ELSE CScale(<<re(a, t), im(a, t)>>, Div(R(1), weight(a, t)))]],
          [a \in ids |-> [t \in times |-> weight(a, t)]]>>

(* C22 as claimed: the call returns the weighted means and weight sums of  *)
(* the rows whose FLAG_ROW entry is not set (and whose FLAG entry is not   *)
(* set), each paired as the branches on its antennas pair it: a row with   *)
(* FLAG_ROW set adds nothing, a row without is not skipped for it.          *)
C22_FlaggedRowsAddNothing ==
    ret.op = "_extract_holog_chunk_jit" =>
        LET c == ret.args
            Paired(row) == baseline(row, c.map_ant_ids, c.ref_ant_ids)
            Counts(row) == ~row.flag /\ ~row.flag_row
        IN  <<ret.value[1], ret.value[2]>> = Expected(c, Paired, Counts)

(* C23 as claimed: the call returns the weighted means and weight sums of  *)
(* the rows (whose FLAG entry is not set) of a mapping and a reference     *)
(* antenna: the visibility as it is where the mapping antenna is ANTENNA1, *)
(* its conjugate where the mapping antenna is ANTENNA2 and ANTENNA1 a      *)
(* reference antenna; the other rows add nothing.                           *)
C23_MappingWithReferenceOnly ==
    ret.op = "_extract_holog_chunk_jit" =>
        LET c == ret.args
            Paired(row) ==
                IF In(row.ant1, c.map_ant_ids) /\ In(row.ant2, c.ref_ant_ids)
                THEN Some([vis_baseline |-> row.vis, map_ant_index |-> row.ant1])
                ELSE IF In(row.ant2, c.map_ant_ids) /\ In(row.ant1, c.ref_ant_ids)
                THEN Some([vis_baseline |-> conjugate(row.vis),
                           map_ant_index |-> row.ant2])
                ELSE None
            Counts(row) == ~row.flag
        IN  <<ret.value[1], ret.value[2]>> = Expected(c, Paired, Counts)

(* C24 as claimed: the .holog_json file written by a returning call holds, *)
(* for every numeric ddi, every scan and every antenna of holog_dict, the  *)
(* entry [ant][ddi][scan], the meta data of that xds.                       *)
C24_EveryEntryWritten ==
    (ret.op = "_create_holog_meta_data" /\ ~ret.raised) =>
        \A i \in DOMAIN ret.args :
            ret.args[i].numeric =>
                \A j \in DOMAIN ret.args[i].scan_dict :
                    \A k \in DOMAIN ret.args[i].scan_dict[j].ant_dict :
                        LET ddi == str(ret.args[i].key)
                            scan == str(ret.args[i].scan_dict[j].scan)
                            ant == str(ret.args[i].scan_dict[j].ant_dict[k].ant)
                            xds == ret.args[i].scan_dict[j].ant_dict[k].xds
                            written == holog_file[1].holog_json
                        IN  /\ ant \in DOMAIN written
                            /\ ddi \in DOMAIN written[ant]
                            /\ scan \in DOMAIN written[ant][ddi]
                            /\ written[ant][ddi][scan] = to_dict(xds)
                            /\ int(ddi) = ret.args[i].key

====
